---- MODULE Spec2Model ----
(***************************************************************************)
(* Model of the two mirror engines of mc:                                  *)
(*   - the watch-capable engine  (src/cmd/mirror-main.go) together with    *)
(*     its work item generator   (src/unnamed/part_005, deltaSourceTargets)*)
(*   - the session-based engine  (src/mirror-main.go, doMirrorSession)     *)
(***************************************************************************)
EXTENDS Integers, Sequences, FiniteSets, TLC

\* ------------------------------------------------------------------ bounds
\* number of paths of the compared trees; the lexicographic order of the
\* listings is the numeric order of the path indices
MaxPath == 2
\* number of items of the session log
MaxItems == 2
\* runtime.NumCPU() is drawn from 1..MaxCPU
MaxCPU == 3
\* number of times a stopped session is resumed
MaxResume == 1
\* number of I/O operations (client creation, stat, get, put, remove) that
\* may fail for a reason other than a missing object
MaxIOFail == 1
\* number of listing errors the differencer may deliver
MaxDiffErr == 1
\* number of out-of-band changes of the source tree seen by the watcher
MaxEvents == 2
\* Read calls the transfer workers make on their proxy readers, altogether
MaxReads == 3

Paths == 1..MaxPath
\* a run with --watch is modelled on a tree of one path: the walk and the
\* watcher then work on the same object, which is where they interfere
WatchPaths == {1}
Items == 1..MaxItems

\* ------------------------------------------------------------- variables
VARIABLES
  \* --- flags of the mirror command (mj.context)
  isForce, isFake, isRemove, isWatch,
  \* --- the two trees: path -> entry
  src, tgt,
  \* --- generator goroutine (deltaSourceTargets)
  diffPos,        \* next path the differencer compares
  diffErrLeft,    \* listing errors still to come
  genPc,          \* "loop" | "closed"
  URLsCh,         \* unbuffered channel: <<>> or <<item being sent>>
  emitted,        \* history: per differencer entry d, the items sent for it (out)
  \* --- one-shot walk (startMirror / mirror)
  walkPc,         \* "recv" | "send" | "wait" | "returned"
  TotalObjects, TotalBytes,
  prepErrs,       \* history: errors reported by startMirror (status.errorIf)
  \* --- watcher goroutine (watchMirror)
  events,         \* watcher.Events(): queue of notifications
  watchErrs,      \* watcher.Errors(): queue of subscription errors
  evLeft,         \* out-of-band changes still to come
  watchPc,        \* "off" | "recv" | "send" | "sendret" | "returned"
  watcherRunning,
  monErrs,        \* history: subscription errors reported by the watcher
  \* --- status goroutine (startStatus) and the status object
  statusCh,       \* unbuffered channel: producer -> <<>> or <<message>>
  statusLog,      \* history: producer -> the messages the consumer received
  statusTotal,    \* mj.status.Total()
  statusAdded,    \* bytes accounted by the progress status
  statusPc,       \* status goroutine: "loop" | "finished" (deferred Finish ran)
  handed,         \* history: producer -> the items given to mj.doMirror / mj.doRemove
  \* --- the storage client capability
  putCalls,       \* path -> number of calls of the target's write path
  removeCalls,    \* path -> number of remove calls against the target
  ioFailLeft,
  \* --- process
  exited,         \* os.Exit was called, or mainMirror returned
  \* --- the session-based engine (doMirrorSession)
  NumCPU,
  sessionData,    \* the session data file: the logged source names, in order
  sessionExists,  \* the session is on disk (not deleted)
  LastCopied,     \* session.Header.LastCopied, 0 is the empty string
  lastCopied,     \* isCopied closure: the marker captured at the start of the run
  copied,         \* isCopied closure: still at or before the marker
  scanPos,        \* next line of the data file the dispatcher reads
  mirrorQueue,    \* number of slots of the gate that are taken
  wk,             \* item -> "none" | "started" | "sending" | "sent" | "done"
  wkErr,          \* item -> class of the error of its status: "none" | "net" | "other"
  dispPc,         \* dispatcher goroutine: "scan" | "go" | "closed"
  consPc,         \* status goroutine: "run" | "finished"
  procPc,         \* process: "prep" | "run" | "stopped" | "aborted" | "done"
  sTarget,        \* the items the target holds
  xfers,          \* history: item -> number of puts, over all runs
  recordedPrev,   \* history: items whose success was recorded in an earlier run
  recordedNow,    \* history: items whose success was recorded in this run
  failedItems,    \* history: items for which a worker reported a failure
  resumesLeft, sFailLeft

\* the preparation of the session-based engine (doPrepareMirrorURLs)
VARIABLES
  prepTotalBytes,     \* its local totalBytes
  prepTotalObjects,   \* its local totalObjects
  HeaderTotalBytes,   \* session.Header.TotalBytes
  HeaderTotalObjects, \* session.Header.TotalObjects
  prepSkipped         \* history: the kinds of the items it did not log

\* the directory differencer (doDiffDirs)
VARIABLES
  firstClnt,      \* the first listing: path -> entry, in lexicographic order
  secondClnt,     \* the second listing
  recursive,      \* doDiffDirs' flag: dodiffRecursive when TRUE, else dodiff
  listPos,        \* the next path the loop over the first listing looks at
  diffPc,         \* "loop" | "returned"
  ch,             \* the diff records sent so far, in order
  visited         \* history: the paths the differencer's loop has examined

\* the replay of a resumed session (doMirrorSession, doMirrorFake)
VARIABLES
  globalQuietFlag, globalJSONFlag, globalDebugFlag,
  progressReader, \* the sink built for the run: "nil" | "barSend" | "accounter"
  fakeSize,       \* item -> SourceContent.Size in the session data
  fakeMarker,     \* isCopied closure: the marker of the resumed session
  fakeCopied,     \* isCopied closure: still at or before the marker
  fakePos,        \* next line of the session data
  fakeBar,        \* bytes doMirrorFake added to the interactive bar
  fakeAddressed,  \* the sink doMirrorFake addressed: "none" | "barSend"
  fakeReplayed,   \* items handed to doMirrorFake
  fakeStarted,    \* items for which a transfer was started
  fakeOutcome     \* "ok" | "fault" (failed type assertion)

\* a call of the emptiness test of a work item (mirrorURLs.isEmpty)
VARIABLES
  emItem,         \* the item the test is applied to
  emResult,       \* what isEmpty did: "unset" | "true" | "false" | "fault"
  emPrep          \* what doPrepareMirrorURLs did with the item:
                  \* "unset" | "reported" | "skipped" | "logged" | "fault"

\* the progress bar shared by the transfer workers (barSend)
VARIABLES
  transferred,    \* b.transferred
  opCh,           \* b.opCh, unbuffered: <<>> or the one message being sent
  totalBytesRead, \* the bar goroutine's sum of the progress messages
  rdPc,           \* worker -> "read" | "load" | "store" | "send"
  rdN,            \* worker -> n, the byte count of its current Read
  rdTmp,          \* worker -> the value of b.transferred it has loaded
  readsLeft,      \* the Read calls the workers still make altogether
  reported        \* history: the sum of the increments passed to Progress

mvars == <<isForce, isFake, isRemove, isWatch, src, tgt, diffPos, diffErrLeft,
           genPc, URLsCh, emitted, walkPc, TotalObjects, TotalBytes,
           prepErrs, events, watchErrs, evLeft, watchPc, watcherRunning, monErrs,
           statusCh, statusLog, statusTotal, statusAdded,
           putCalls, removeCalls, ioFailLeft, exited,
           statusPc, handed>>

svars == <<NumCPU, sessionData, sessionExists, LastCopied, lastCopied, copied,
           scanPos, mirrorQueue, wk, wkErr, dispPc, consPc, procPc, sTarget,
           xfers, recordedPrev, recordedNow, failedItems, resumesLeft,
           sFailLeft, prepTotalBytes, prepTotalObjects, HeaderTotalBytes,
           HeaderTotalObjects, prepSkipped>>

prepVars == <<prepTotalBytes, prepTotalObjects, HeaderTotalBytes,
              HeaderTotalObjects, prepSkipped>>

dvars == <<firstClnt, secondClnt, recursive, listPos, diffPc, ch, visited>>

pvars == <<transferred, opCh, totalBytesRead, rdPc, rdN, rdTmp, readsLeft,
           reported>>

evars == <<emItem, emResult, emPrep>>

fvars == <<globalQuietFlag, globalJSONFlag, globalDebugFlag, progressReader,
           fakeSize, fakeMarker, fakeCopied, fakePos, fakeBar, fakeAddressed,
           fakeReplayed, fakeStarted, fakeOutcome>>

vars == <<mvars, svars, dvars, pvars, evars, fvars>>

flags == <<isForce, isFake, isRemove, isWatch>>
trees == <<src, tgt>>
walkVars == <<walkPc, TotalObjects, TotalBytes, prepErrs>>
watchVars == <<events, watchErrs, evLeft, watchPc, watcherRunning, monErrs>>
consumerVars == <<statusLog, statusPc>>
ioVars == <<statusAdded, putCalls, removeCalls, handed>>

\* ---------------------------------------------------------------- entries
NoEntry == [kind |-> "none", size |-> 0, time |-> 0]
DirEntry == [kind |-> "dir", size |-> 0, time |-> 0]
FileEntry(s, t) == [kind |-> "file", size |-> s, time |-> t]

\* the object the source holds at path p when it holds one: a recursive
\* listing of the source delivers objects only
SrcFile(p) == FileEntry(10 * p, 1)
SrcEntries(p) == {NoEntry, SrcFile(p)}
\* what the target may hold at path p: nothing, a folder, the same object, the
\* same object with another modification time, an object of another size
TgtEntries(p) ==
  {NoEntry, DirEntry, SrcFile(p), FileEntry(10 * p, 2), FileEntry(5, 1)}
SrcTrees(P) ==
  {f \in [P -> UNION {SrcEntries(p) : p \in P}] :
     \A p \in P : f[p] \in SrcEntries(p)}
TgtTrees(P) ==
  {f \in [P -> UNION {TgtEntries(p) : p \in P}] :
     \A p \in P : f[p] \in TgtEntries(p)}

\* ------------------------------------------------------------ work items
\* a probe.Error with the URL it traces; kind "none" is the nil error
Err(kind, url) == [kind |-> kind, url |-> url]
NoError == Err("none", 0)

\* URLs / mirrorURLs: SourceContent and TargetContent are 0 (nil) or a path
URLs(sc, size, tc, err) ==
  [SourceContent |-> sc, Size |-> size, TargetContent |-> tc, Error |-> err,
   TotalCount |-> 0, TotalSize |-> 0]

WithError(sURLs, err) == [sURLs EXCEPT !.Error = err]

\* ------------------------------------------------------------ differencer
\* differenceCh: the merge-style comparison of the two listings; it visits the
\* paths of the union in lexicographic order and classifies each
differenceCh(s, t) ==
  IF t.kind = "none" THEN "differInFirst"
  ELSE IF s.kind = "none" THEN "differInSecond"
  ELSE IF s.kind # t.kind THEN "differInType"
  ELSE IF s.size # t.size THEN "differInSize"
  ELSE IF s.time # t.time THEN "differInTime"
  ELSE "differInNone"

InUnion(p) == src[p].kind # "none" \/ tgt[p].kind # "none"

\* the paths of the run, and the position after the last one
TreePaths == DOMAIN src
EndPos == Cardinality(TreePaths) + 1

\* the next path the differencer reports, EndPos when the walk is over
NextDiff ==
  LET rest == {p \in TreePaths : p >= diffPos /\ InUnion(p)}
  IN  IF rest = {} THEN EndPos
      ELSE CHOOSE p \in rest : \A q \in rest : p <= q

\* one entry of the differencer's sequence
DiffEntry(p) ==
  [err |-> NoError, dType |-> differenceCh(src[p], tgt[p]), path |-> p,
   size |-> src[p].size]

\* -------------------------------------------------------------- generator
\* variant of the loop body in which force overrides a type mismatch: the
\* folder at the target is overwritten by a copy item
deltaSourceTargetsForceType(d) ==
  IF d.err.kind # "none" THEN <<URLs(0, 0, 0, d.err)>>
  ELSE IF d.dType = "differInType" /\ ~isForce
    THEN <<URLs(0, 0, 0, Err("errInvalidTarget", d.path))>>
  ELSE IF d.dType \in {"differInFirst", "differInType"}
    THEN <<URLs(d.path, d.size, d.path, NoError)>>
  ELSE <<>>

\* variant of the loop body that sends a copy item twice
deltaSourceTargetsTwice(d) ==
  IF d.err.kind # "none" THEN <<URLs(0, 0, 0, d.err)>>
  ELSE IF d.dType = "differInFirst"
    THEN <<URLs(d.path, d.size, d.path, NoError),
           URLs(d.path, d.size, d.path, NoError)>>
  ELSE <<>>

\* variant of the loop body that also skips an entry found in the source only
deltaSourceTargetsSkipFirst(d) ==
  IF d.err.kind # "none" THEN <<URLs(0, 0, 0, d.err)>>
  ELSE IF d.dType = "differInType"
    THEN <<URLs(0, 0, 0, Err("errInvalidTarget", d.path))>>
  ELSE <<>>

\* the body of the loop of deltaSourceTargets for one differencer entry d:
\* the items it sends on mirrorURLsCh (none or one)
deltaSourceTargets(d) ==
  IF d.err.kind # "none" THEN <<URLs(0, 0, 0, d.err)>>
  ELSE LET differ == d.dType IN
    IF (isRemove /\ isForce /\ differ = "differInTime") \/ differ = "differInSize"
      THEN <<>>
    ELSE IF isRemove /\ isForce /\ differ = "differInSecond" THEN <<>>
    ELSE IF differ = "differInNone" \/ differ = "differInSecond" THEN <<>>
    ELSE IF differ = "differInType"
      THEN <<URLs(0, 0, 0, Err("errInvalidTarget", d.path))>>
    ELSE IF differ = "differInSize" /\ ~isForce /\ ~isFake
      THEN <<URLs(0, 0, 0, Err("errOverWriteNotAllowed", d.path))>>
    ELSE <<URLs(d.path, d.size, d.path, NoError)>>

\* newClientFromAlias fails for the source or the target: one error item,
\* then the channel is closed
DeltaNewClientFail ==
  /\ ~exited /\ genPc = "loop" /\ diffPos = 1 /\ emitted = <<>> /\ URLsCh = <<>>
  /\ ioFailLeft > 0
  /\ LET d == [err |-> Err("clientErr", 0), dType |-> "differInNone",
               path |-> 0, size |-> 0]
         out == <<URLs(0, 0, 0, d.err)>> IN
       /\ URLsCh' = out
       /\ emitted' = Append(emitted, [d |-> d, out |-> out])
  /\ genPc' = "closed"
  /\ ioFailLeft' = ioFailLeft - 1
  /\ UNCHANGED <<flags, trees, diffPos, diffErrLeft, walkVars, watchVars,
                 statusCh, consumerVars, statusTotal, ioVars, exited>>

\* one iteration for the next compared path
DeltaStep ==
  /\ ~exited /\ genPc = "loop" /\ URLsCh = <<>>
  /\ NextDiff < EndPos
  /\ LET d == DiffEntry(NextDiff)
         out == deltaSourceTargets(d) IN
       /\ URLsCh' = out
       /\ emitted' = Append(emitted, [d |-> d, out |-> out])
  /\ diffPos' = NextDiff + 1
  /\ UNCHANGED <<flags, trees, diffErrLeft, genPc, walkVars, watchVars,
                 statusCh, consumerVars, statusTotal, ioVars, ioFailLeft,
                 exited>>

\* variant of the error branch that returns after it has sent the error item
DeltaErrReturns ==
  /\ ~exited /\ genPc = "loop" /\ URLsCh = <<>>
  /\ diffErrLeft > 0
  /\ LET d == [err |-> Err("listErr", 0), dType |-> "differInNone",
               path |-> 0, size |-> 0]
         out == deltaSourceTargets(d) IN
       /\ URLsCh' = out
       /\ emitted' = Append(emitted, [d |-> d, out |-> out])
  /\ diffErrLeft' = diffErrLeft - 1
  /\ genPc' = "closed"
  /\ UNCHANGED <<flags, trees, diffPos, walkVars, watchVars, statusCh,
                 consumerVars, statusTotal, ioVars, ioFailLeft, exited>>

\* one iteration for an entry that carries a listing error
DeltaErr ==
  /\ ~exited /\ genPc = "loop" /\ URLsCh = <<>>
  /\ diffErrLeft > 0
  /\ LET d == [err |-> Err("listErr", 0), dType |-> "differInNone",
               path |-> 0, size |-> 0]
         out == deltaSourceTargets(d) IN
       /\ URLsCh' = out
       /\ emitted' = Append(emitted, [d |-> d, out |-> out])
  /\ diffErrLeft' = diffErrLeft - 1
  /\ UNCHANGED <<flags, trees, diffPos, genPc, walkVars, watchVars, statusCh,
                 consumerVars, statusTotal, ioVars, ioFailLeft, exited>>

\* the differencer sequence is exhausted: deferred close(mirrorURLsCh)
DeltaClose ==
  /\ ~exited /\ genPc = "loop" /\ URLsCh = <<>>
  /\ NextDiff = EndPos
  /\ genPc' = "closed"
  /\ UNCHANGED <<flags, trees, diffPos, diffErrLeft, URLsCh, emitted, walkVars,
                 watchVars, statusCh, consumerVars, statusTotal, ioVars,
                 ioFailLeft, exited>>

\* ------------------------------------------------- storage client effects
\* the outcome of an operation that touches the target:
\*   res: the status, tgt/puts/removes/added: the new values, failed: whether
\*   an I/O failure was consumed
Outcome(res, t, puts, removes, added, failed) ==
  [res |-> res, tgt |-> t, puts |-> puts, removes |-> removes,
   added |-> added, failed |-> failed]

\* get of the source object, then put to the target through the accounting
\* reader
uploadSourceToTargetURL(sURLs, fail) ==
  LET p == sURLs.SourceContent
      t == sURLs.TargetContent
  IN  IF src[p].kind = "none"
        THEN Outcome(WithError(sURLs, Err("getErr", p)), tgt, putCalls,
                     removeCalls, statusAdded, FALSE)
      ELSE IF fail
        THEN Outcome(WithError(sURLs, Err("putErr", t)), tgt,
                     [putCalls EXCEPT ![t] = @ + 1], removeCalls, statusAdded,
                     TRUE)
      ELSE Outcome(WithError(sURLs, NoError), [tgt EXCEPT ![t] = src[p]],
                   [putCalls EXCEPT ![t] = @ + 1], removeCalls,
                   statusAdded + src[p].size, FALSE)

\* remove of one target object
removeSingle(sURLs, fail) ==
  LET t == sURLs.TargetContent
  IN  IF fail
        THEN Outcome(WithError(sURLs, Err("removeErr", t)), tgt, putCalls,
                     [removeCalls EXCEPT ![t] = @ + 1], statusAdded, TRUE)
      ELSE Outcome(WithError(sURLs, NoError), [tgt EXCEPT ![t] = NoEntry],
                   putCalls, [removeCalls EXCEPT ![t] = @ + 1], statusAdded,
                   FALSE)

\* variant of mirrorJob.doRemove that does not look at fake
doRemoveAlways(sURLs, fail) == removeSingle(sURLs, fail)

\* mirrorJob.doRemove
doRemove(sURLs, fail) ==
  IF isFake
    THEN Outcome(WithError(sURLs, NoError), tgt, putCalls, removeCalls,
                 statusAdded, FALSE)
  ELSE removeSingle(sURLs, fail)

\* variant of mirrorJob.doMirror without the test of sURLs.Error
mjDoMirrorUnchecked(sURLs, fail) ==
  IF isFake
    THEN Outcome(WithError(sURLs, NoError), tgt, putCalls, removeCalls,
                 statusAdded + sURLs.Size, FALSE)
  ELSE uploadSourceToTargetURL(sURLs, fail)

\* mirrorJob.doMirror
mjDoMirror(sURLs, fail) ==
  IF sURLs.Error.kind # "none"
    THEN Outcome(sURLs, tgt, putCalls, removeCalls, statusAdded, FALSE)
  ELSE IF isFake
    THEN Outcome(WithError(sURLs, NoError), tgt, putCalls, removeCalls,
                 statusAdded + sURLs.Size, FALSE)
  ELSE uploadSourceToTargetURL(sURLs, fail)

\* ------------------------------------------------------------ one-shot walk

Producers == {"walk", "watch"}

\* mj.statusCh <- mj.doMirror(sURLs) and mj.statusCh <- mj.doRemove(sURLs): the
\* result o of the I/O of the item is sent on statusCh, and the sender blocks
\* until the status goroutine receives it
SendStatus(who, sURLs, o) ==
  /\ handed' = [handed EXCEPT ![who] = Append(@, sURLs)]
  /\ statusCh' = [statusCh EXCEPT ![who] = <<o.res>>]
  /\ tgt' = o.tgt
  /\ putCalls' = o.puts
  /\ removeCalls' = o.removes
  /\ statusAdded' = o.added
  /\ ioFailLeft' = IF o.failed THEN ioFailLeft - 1 ELSE ioFailLeft

\* startMirror: the item is a delete item and both policies are set
walkRemoveCond(sURLs) == sURLs.TargetContent # 0 /\ isRemove /\ isForce

\* startMirror: one item received from URLsCh
StartMirrorRecv ==
  /\ ~exited /\ walkPc = "recv" /\ URLsCh # <<>>
  /\ URLsCh' = <<>>
  /\ LET sURLs == Head(URLsCh) IN
     IF sURLs.Error.kind # "none"
       THEN /\ prepErrs' = Append(prepErrs, sURLs.Error)
            /\ UNCHANGED <<walkPc, TotalObjects, TotalBytes, statusTotal,
                           statusCh, tgt, ioVars, ioFailLeft>>
     ELSE
       LET totalBytes == IF sURLs.SourceContent # 0
                           THEN TotalBytes + sURLs.Size ELSE TotalBytes
           totalObjects == TotalObjects + 1
           item == [sURLs EXCEPT !.TotalCount = totalObjects,
                                 !.TotalSize = totalBytes]
       IN  /\ TotalBytes' = totalBytes
           /\ TotalObjects' = totalObjects
           /\ statusTotal' = totalBytes
           /\ UNCHANGED prepErrs
           /\ IF item.SourceContent # 0
                THEN /\ \E fail \in BOOLEAN :
                          /\ fail => ioFailLeft > 0
                          /\ fail = mjDoMirror(item, fail).failed
                          /\ SendStatus("walk", item, mjDoMirror(item, fail))
                     /\ walkPc' = "send"
              ELSE IF walkRemoveCond(item)
                THEN /\ \E fail \in BOOLEAN :
                          /\ fail => ioFailLeft > 0
                          /\ fail = doRemove(item, fail).failed
                          /\ SendStatus("walk", item, doRemove(item, fail))
                     /\ walkPc' = "send"
              ELSE UNCHANGED <<walkPc, statusCh, tgt, ioVars, ioFailLeft>>
  /\ UNCHANGED <<flags, src, diffPos, diffErrLeft, genPc, emitted, watchVars,
                 consumerVars, exited>>

\* startMirror finds URLsCh closed and returns to mirror(), which waits for
\* the trap while the watcher runs and returns to mainMirror otherwise
StartMirrorDone ==
  /\ ~exited /\ walkPc = "recv" /\ URLsCh = <<>> /\ genPc = "closed"
  /\ IF watcherRunning /\ isWatch
       THEN walkPc' = "wait" /\ UNCHANGED exited
       ELSE walkPc' = "returned" /\ exited' = TRUE
  /\ UNCHANGED <<flags, trees, diffPos, diffErrLeft, genPc, emitted, URLsCh,
                 TotalObjects, TotalBytes, prepErrs, watchVars, statusCh,
                 consumerVars, statusTotal, ioVars, ioFailLeft>>

\* an interrupt is taken by the select of startMirror (os.Exit) or by the
\* wait of mirror()
Trap ==
  /\ ~exited /\ walkPc \in {"recv", "wait"}
  /\ exited' = TRUE
  /\ UNCHANGED <<flags, trees, diffPos, diffErrLeft, genPc, emitted, URLsCh,
                 walkVars, watchVars, statusCh, consumerVars, statusTotal,
                 ioVars, ioFailLeft>>

\* mirrorJob.doMirror: what it shows itself for the item it is given, before
\* the upload: a mirrorMessage, unless the item carries an error or fake is set
doMirrorPrintMsg(sURLs) ==
  IF sURLs.SourceContent = 0 \/ sURLs.Error.kind # "none" \/ isFake THEN <<>>
  ELSE <<[what |-> "mirrorMessage", err |-> Err("none", sURLs.TargetContent)]>>

\* ---------------------------------------------------------- status consumer
\* startStatus, the body of the loop: what the consumer shows for one
\* received message (errorIf lines and rmMessage lines)
startStatus(sURLs) ==
  (IF sURLs.Error.kind # "none"
     THEN IF sURLs.SourceContent # 0
            THEN <<[what |-> "Failed to copy", err |-> sURLs.Error]>>
            ELSE <<[what |-> "Failed to remove", err |-> sURLs.Error]>>
     ELSE <<>>)
  \o
  (IF sURLs.SourceContent # 0 THEN <<>>
   ELSE IF sURLs.TargetContent # 0
     THEN <<[what |-> "rmMessage", err |-> Err("none", sURLs.TargetContent)]>>
   ELSE <<>>)

\* the status goroutine receives one message and handles it
StartStatusRecv ==
  /\ ~exited
  /\ \E who \in Producers :
       /\ statusCh[who] # <<>>
       /\ statusLog' = [statusLog EXCEPT ![who] = Append(@, Head(statusCh[who]))]
       /\ UNCHANGED statusPc
       /\ statusCh' = [statusCh EXCEPT ![who] = <<>>]
       /\ IF who = "walk"
            THEN walkPc' = "recv" /\ UNCHANGED watchPc
            ELSE /\ watchPc' = IF watchPc = "sendret" THEN "returned" ELSE "recv"
                 /\ UNCHANGED walkPc
  /\ UNCHANGED <<flags, trees, diffPos, diffErrLeft, genPc, emitted, URLsCh,
                 TotalObjects, TotalBytes, prepErrs, events, watchErrs, evLeft,
                 watcherRunning, monErrs, statusTotal, ioVars, ioFailLeft,
                 exited>>

\* everything the consumer has shown for the messages of one producer
RECURSIVE Shown(_)
Shown(log) ==
  IF log = <<>> THEN <<>> ELSE startStatus(Head(log)) \o Shown(Tail(log))

\* ----------------------------------------------------------------- watcher
\* an object is written to the source out of band; the notification carries
\* its size, or 0 when the size is not known
SourceCreated ==
  /\ ~exited /\ isWatch /\ evLeft > 0
  /\ \E p \in TreePaths, known \in BOOLEAN :
       /\ src' = [src EXCEPT ![p] = SrcFile(p)]
       /\ events' = Append(events, [Type |-> "Create", Path |-> p,
                                    Size |-> IF known THEN SrcFile(p).size ELSE 0])
  /\ evLeft' = evLeft - 1
  /\ UNCHANGED <<flags, tgt, diffPos, diffErrLeft, genPc, emitted, URLsCh,
                 walkVars, watchErrs, watchPc, watcherRunning, monErrs,
                 statusCh, consumerVars, statusTotal, ioVars, ioFailLeft,
                 exited>>

\* an object of the source is removed out of band
SourceRemoved ==
  /\ ~exited /\ isWatch /\ evLeft > 0
  /\ \E p \in TreePaths :
       /\ src[p].kind # "none"
       /\ src' = [src EXCEPT ![p] = NoEntry]
       /\ events' = Append(events, [Type |-> "Remove", Path |-> p, Size |-> 0])
  /\ evLeft' = evLeft - 1
  /\ UNCHANGED <<flags, tgt, diffPos, diffErrLeft, genPc, emitted, URLsCh,
                 walkVars, watchErrs, watchPc, watcherRunning, monErrs,
                 statusCh, consumerVars, statusTotal, ioVars, ioFailLeft,
                 exited>>

\* the subscription reports an error (one per run)
SubscriptionError ==
  /\ ~exited /\ isWatch /\ evLeft > 0
  /\ watchErrs = <<>> /\ monErrs = <<>> /\ watcherRunning
  /\ \E e \in {"APINotImplemented", "other"} :
       watchErrs' = Append(watchErrs, e)
  /\ evLeft' = evLeft - 1
  /\ UNCHANGED <<flags, trees, diffPos, diffErrLeft, genPc, emitted, URLsCh,
                 walkVars, events, watchPc, watcherRunning, monErrs, statusCh,
                 consumerVars, statusTotal, ioVars, ioFailLeft, exited>>

\* the event is not queued (continue without a send)
WatchSkip ==
  UNCHANGED <<statusCh, tgt, ioVars, ioFailLeft, statusTotal, watchPc>>

\* mj.statusCh <- mirrorURL.WithError(err), then continue or return
WatchSendErr(item, ret, injected) ==
  /\ statusCh' = [statusCh EXCEPT !["watch"] = <<item>>]
  /\ watchPc' = IF ret THEN "sendret" ELSE "send"
  /\ ioFailLeft' = IF injected THEN ioFailLeft - 1 ELSE ioFailLeft
  /\ UNCHANGED <<tgt, ioVars, statusTotal>>

\* variant of the queueing in which the watcher does not wait for the status
\* goroutine to take the status before it reads its next event
WatchQueueNoWait(item, size, fail) ==
  /\ fail = mjDoMirror(item, fail).failed
  /\ statusTotal' = statusTotal + size
  /\ SendStatus("watch", item, mjDoMirror(item, fail))
  /\ watchPc' = "recv"

\* the total is adjusted and the copy runs inline: mj.statusCh <- mj.doMirror(..)
WatchQueue(item, size, fail) ==
  /\ fail = mjDoMirror(item, fail).failed
  /\ statusTotal' = statusTotal + size
  /\ SendStatus("watch", item, mjDoMirror(item, fail))
  /\ watchPc' = "send"

\* the totals the watcher copies into its item
WithTotals(sURLs) ==
  [sURLs EXCEPT !.TotalCount = TotalObjects, !.TotalSize = TotalBytes]

\* variant of the existence probe that never finds the target object
watchSkipNever(p) == FALSE

\* watchMirror, Create event: without force the target is stat'ed, and the
\* event is skipped when the object exists
watchSkipExisting(p) == ~isForce /\ tgt[p].kind # "none"

\* variant of the Remove branch that asks for the remove policy only
watchRemoveCondNoForce(mirrorURL) ==
  mirrorURL.TargetContent # 0 /\ isRemove

\* watchMirror, Remove event: the delete is queued when both policies are set
watchRemoveCond(mirrorURL) ==
  mirrorURL.TargetContent # 0 /\ isRemove /\ isForce

\* watchMirror: the body of the loop for one event
WatchEvent ==
  /\ ~exited /\ watchPc = "recv" /\ events # <<>>
  /\ events' = Tail(events)
  /\ LET event == Head(events)
         p == event.Path
     IN \E f \in {"none", "srcClient", "tgtClient", "io"} :
        /\ f # "none" => ioFailLeft > 0
        /\ IF event.Type = "Create"
             THEN LET mirrorURL == URLs(p, 0, p, NoError) IN
               IF event.Size = 0
                 THEN IF f = "srcClient"
                        THEN WatchSendErr(WithError(mirrorURL, Err("clientErr", p)),
                                          FALSE, TRUE)
                      ELSE IF src[p].kind = "none"
                        THEN /\ f = "none"
                             /\ WatchSendErr(WithError(mirrorURL, Err("statErr", p)),
                                             FALSE, FALSE)
                      ELSE IF f = "tgtClient"
                        THEN WatchSendErr(WithError(mirrorURL, Err("clientErr", p)),
                                          TRUE, TRUE)
                      ELSE IF watchSkipExisting(p)
                        THEN f = "none" /\ WatchSkip
                      ELSE WatchQueue(WithTotals(mirrorURL), src[p].size, f = "io")
               ELSE IF f = "srcClient" THEN FALSE
                    ELSE IF ~isForce /\ f = "tgtClient"
                      THEN WatchSendErr(WithError(mirrorURL, Err("clientErr", p)),
                                        TRUE, TRUE)
                    ELSE IF f = "tgtClient" THEN FALSE
                    ELSE IF watchSkipExisting(p)
                      THEN f = "none" /\ WatchSkip
                    ELSE WatchQueue(WithTotals([mirrorURL EXCEPT !.Size = event.Size]),
                                    event.Size, f = "io")
           ELSE LET mirrorURL == WithTotals(URLs(0, 0, p, NoError)) IN
               IF watchRemoveCond(mirrorURL)
                 THEN /\ f \in {"none", "io"}
                      /\ (f = "io") = doRemove(mirrorURL, f = "io").failed
                      /\ SendStatus("watch", mirrorURL, doRemove(mirrorURL, f = "io"))
                      /\ watchPc' = "send"
                      /\ UNCHANGED statusTotal
               ELSE f = "none" /\ WatchSkip
  /\ UNCHANGED <<flags, src, diffPos, diffErrLeft, genPc, emitted, URLsCh,
                 walkVars, watchErrs, evLeft, watcherRunning, monErrs,
                 consumerVars, exited>>

\* variant of the switch on the subscription error without the case
\* APINotImplemented
WatchErrorReportsAll ==
  /\ ~exited /\ watchPc = "recv" /\ watchErrs # <<>>
  /\ watchErrs' = Tail(watchErrs)
  /\ monErrs' = Append(monErrs, Head(watchErrs))
  /\ UNCHANGED <<watcherRunning, watchPc>>
  /\ UNCHANGED <<flags, trees, diffPos, diffErrLeft, genPc, emitted, URLsCh,
                 walkVars, events, evLeft, statusCh, consumerVars, statusTotal,
                 ioVars, ioFailLeft, exited>>

\* watchMirror: the body of the loop for one subscription error
WatchError ==
  /\ ~exited /\ watchPc = "recv" /\ watchErrs # <<>>
  /\ watchErrs' = Tail(watchErrs)
  /\ IF Head(watchErrs) = "APINotImplemented"
       THEN /\ watcherRunning' = FALSE
            /\ watchPc' = "returned"
            /\ UNCHANGED monErrs
       ELSE /\ monErrs' = Append(monErrs, Head(watchErrs))
            /\ UNCHANGED <<watcherRunning, watchPc>>
  /\ UNCHANGED <<flags, trees, diffPos, diffErrLeft, genPc, emitted, URLsCh,
                 walkVars, events, evLeft, statusCh, consumerVars, statusTotal,
                 ioVars, ioFailLeft, exited>>

\* ------------------------------------------------------------------- start
\* checkMirrorSyntax: it dies unless there are two arguments, the source is a
\* folder or a prefix, and the target is named and absent or can be stat'ed.
\* The model starts from two such URLs; the flags are not read by the check.
checkMirrorSyntax(force, remove, fake) == TRUE

\* the status the process ends with: os.Exit(0) on the interrupt in
\* startMirror, and mainMirror returns nil
exitStatus == 0

\* the state newMirrorJob and mirror() leave before the first item
InitJob ==
  /\ isForce \in BOOLEAN /\ isFake \in BOOLEAN /\ isRemove \in BOOLEAN
  /\ checkMirrorSyntax(isForce, isRemove, isFake)
  /\ diffPos = 1 /\ genPc = "loop" /\ URLsCh = <<>> /\ emitted = <<>>
  /\ walkPc = "recv" /\ TotalObjects = 0 /\ TotalBytes = 0 /\ prepErrs = <<>>
  /\ events = <<>> /\ watchErrs = <<>> /\ monErrs = <<>>
  /\ watcherRunning = TRUE
  /\ statusCh = [w \in Producers |-> <<>>]
  /\ statusLog = [w \in Producers |-> <<>>]
  /\ statusPc = "loop"
  /\ handed = [w \in Producers |-> <<>>]
  /\ statusTotal = 0 /\ statusAdded = 0
  /\ putCalls = [p \in DOMAIN src |-> 0]
  /\ removeCalls = [p \in DOMAIN src |-> 0]
  /\ exited = FALSE


\* no resumed session is replayed
FakeIdle ==
  /\ globalQuietFlag = FALSE /\ globalJSONFlag = FALSE /\ globalDebugFlag = FALSE
  /\ progressReader = "nil" /\ fakeSize = <<>> /\ fakeMarker = 0
  /\ fakeCopied = TRUE /\ fakePos = 1 /\ fakeBar = 0 /\ fakeAddressed = "none"
  /\ fakeReplayed = {} /\ fakeStarted = {} /\ fakeOutcome = "ok"

\* the emptiness test is not called
EmptyIdle == emItem = URLs(0, 0, 0, NoError) /\ emResult = "unset" /\ emPrep = "unset"

\* no transfer worker runs: the progress bar is not fed
BarIdle ==
  /\ transferred = 0 /\ opCh = <<>> /\ totalBytesRead = 0
  /\ rdPc = <<>> /\ rdN = <<>> /\ rdTmp = <<>> /\ readsLeft = 0
  /\ reported = 0

\* the directory differencer is not part of a mirror run
DiffIdle ==
  /\ firstClnt = <<>> /\ secondClnt = <<>> /\ recursive = FALSE
  /\ listPos = 1 /\ diffPc = "returned" /\ ch = <<>> /\ visited = <<>>

\* the session-based engine is not part of a run of the watch-capable engine
SessionIdle ==
  /\ NumCPU = 1 /\ sessionData = <<>> /\ sessionExists = FALSE
  /\ LastCopied = 0 /\ lastCopied = 0 /\ copied = TRUE /\ scanPos = 1
  /\ mirrorQueue = 0 /\ wk = <<>> /\ wkErr = <<>>
  /\ dispPc = "closed" /\ consPc = "finished" /\ procPc = "done"
  /\ sTarget = {} /\ xfers = <<>> /\ recordedPrev = {} /\ recordedNow = {}
  /\ failedItems = {} /\ resumesLeft = 0 /\ sFailLeft = 0
  /\ prepTotalBytes = 0 /\ prepTotalObjects = 0
  /\ HeaderTotalBytes = 0 /\ HeaderTotalObjects = 0 /\ prepSkipped = <<>>

\* mc mirror without --watch
InitWalk ==
  /\ SessionIdle
  /\ DiffIdle
  /\ BarIdle
  /\ EmptyIdle
  /\ FakeIdle
  /\ src \in SrcTrees(Paths)
  /\ tgt \in TgtTrees(Paths)
  /\ InitJob
  /\ isWatch = FALSE /\ watchPc = "off" /\ evLeft = 0
  /\ diffErrLeft = MaxDiffErr
  /\ ioFailLeft = MaxIOFail

NextWalk ==
  \/ DeltaNewClientFail /\ UNCHANGED <<svars, dvars, pvars, evars, fvars>>
  \/ DeltaStep /\ UNCHANGED <<svars, dvars, pvars, evars, fvars>>
  \/ DeltaErr /\ UNCHANGED <<svars, dvars, pvars, evars, fvars>>
  \/ DeltaClose /\ UNCHANGED <<svars, dvars, pvars, evars, fvars>>
  \/ StartMirrorRecv /\ UNCHANGED <<svars, dvars, pvars, evars, fvars>>
  \/ StartMirrorDone /\ UNCHANGED <<svars, dvars, pvars, evars, fvars>>
  \/ Trap /\ UNCHANGED <<svars, dvars, pvars, evars, fvars>>
  \/ StartStatusRecv /\ UNCHANGED <<svars, dvars, pvars, evars, fvars>>

SpecWalk == InitWalk /\ [][NextWalk]_vars

\* mc mirror --watch
InitWatch ==
  /\ SessionIdle
  /\ DiffIdle
  /\ BarIdle
  /\ EmptyIdle
  /\ FakeIdle
  /\ src \in SrcTrees(WatchPaths)
  /\ tgt \in {f \in TgtTrees(WatchPaths) :
                \A p \in WatchPaths : f[p] \in {NoEntry, SrcFile(p)}}
  /\ InitJob
  /\ isWatch = TRUE /\ watchPc = "recv" /\ evLeft = MaxEvents
  /\ diffErrLeft = 0
  /\ ioFailLeft = MaxIOFail

NextWatch ==
  \/ DeltaNewClientFail /\ UNCHANGED <<svars, dvars, pvars, evars, fvars>>
  \/ DeltaStep /\ UNCHANGED <<svars, dvars, pvars, evars, fvars>>
  \/ DeltaClose /\ UNCHANGED <<svars, dvars, pvars, evars, fvars>>
  \/ StartMirrorRecv /\ UNCHANGED <<svars, dvars, pvars, evars, fvars>>
  \/ StartMirrorDone /\ UNCHANGED <<svars, dvars, pvars, evars, fvars>>
  \/ StartStatusRecv /\ UNCHANGED <<svars, dvars, pvars, evars, fvars>>
  \/ SourceCreated /\ UNCHANGED <<svars, dvars, pvars, evars, fvars>>
  \/ SourceRemoved /\ UNCHANGED <<svars, dvars, pvars, evars, fvars>>
  \/ SubscriptionError /\ UNCHANGED <<svars, dvars, pvars, evars, fvars>>
  \/ WatchEvent /\ UNCHANGED <<svars, dvars, pvars, evars, fvars>>
  \/ WatchError /\ UNCHANGED <<svars, dvars, pvars, evars, fvars>>

SpecWatch == InitWatch /\ [][NextWatch]_vars

\* ------------------------------------------------- session-based engine
\* capacity of mirrorQueue: int(math.Max(float64(runtime.NumCPU())-1, 1))
GateCapacity == IF NumCPU - 1 > 1 THEN NumCPU - 1 ELSE 1

\* variant of the gate that never blocks the dispatcher
GateUnbounded == TRUE

\* mirrorQueue <- true can proceed: a slot of the gate is free
GateFree == mirrorQueue < GateCapacity

\* isCopied(name) of isCopiedFactory(session.Header.LastCopied): true for
\* every item up to and including the marker, false after it
isCopied(name) == lastCopied # 0 /\ copied

\* the closure's flag after isCopied(name)
isCopiedNext(name) ==
  IF lastCopied # 0 /\ copied /\ lastCopied = name THEN FALSE ELSE copied

\* workers that were started and have not yet finished
InFlight == {i \in DOMAIN wk : wk[i] \in {"started", "sending", "sent"}}

sessionFlags == <<NumCPU, sessionData>>
closureVars == <<lastCopied, copied>>
histVars == <<recordedPrev, recordedNow, failedItems>>

\* the size of the source object of the logged item of a given name
ItemSize(name) == 10 * name

\* variant of the error branch that counts the item it reports
PrepareErrorCounted ==
  /\ procPc = "prep" /\ Len(prepSkipped) < MaxDiffErr
  /\ prepSkipped' = Append(prepSkipped, "error")
  /\ prepTotalObjects' = prepTotalObjects + 1
  /\ UNCHANGED <<prepTotalBytes, HeaderTotalBytes, HeaderTotalObjects>>
  /\ UNCHANGED <<sessionFlags, sessionExists, LastCopied, closureVars, scanPos,
                 mirrorQueue, wk, wkErr, dispPc, consPc, procPc, sTarget,
                 xfers, histVars, resumesLeft, sFailLeft>>

\* doPrepareMirrorURLs, an item that carries an error is received: it is
\* reported, and neither logged nor counted
PrepareError ==
  /\ procPc = "prep" /\ Len(prepSkipped) < MaxDiffErr
  /\ prepSkipped' = Append(prepSkipped, "error")
  /\ UNCHANGED <<prepTotalBytes, prepTotalObjects, HeaderTotalBytes,
                 HeaderTotalObjects>>
  /\ UNCHANGED <<sessionFlags, sessionExists, LastCopied, closureVars, scanPos,
                 mirrorQueue, wk, wkErr, dispPc, consPc, procPc, sTarget,
                 xfers, histVars, resumesLeft, sFailLeft>>

\* doPrepareMirrorURLs, an item for which isEmpty() holds is received: it is
\* neither logged nor counted
PrepareEmpty ==
  /\ procPc = "prep" /\ Len(prepSkipped) < MaxDiffErr
  /\ prepSkipped' = Append(prepSkipped, "empty")
  /\ UNCHANGED <<prepTotalBytes, prepTotalObjects, HeaderTotalBytes,
                 HeaderTotalObjects>>
  /\ UNCHANGED <<sessionFlags, sessionExists, LastCopied, closureVars, scanPos,
                 mirrorQueue, wk, wkErr, dispPc, consPc, procPc, sTarget,
                 xfers, histVars, resumesLeft, sFailLeft>>

\* doPrepareMirrorURLs, one item received from URLsCh: it is written to the
\* session data file
PrepareURL ==
  /\ procPc = "prep" /\ Len(sessionData) < Cardinality(DOMAIN wk)
  /\ sessionData' = Append(sessionData, Len(sessionData) + 1)
  /\ prepTotalBytes' = prepTotalBytes + ItemSize(Len(sessionData) + 1)
  /\ prepTotalObjects' = prepTotalObjects + 1
  /\ UNCHANGED <<HeaderTotalBytes, HeaderTotalObjects, prepSkipped>>
  /\ UNCHANGED <<NumCPU, sessionExists, LastCopied, closureVars, scanPos,
                 mirrorQueue, wk, wkErr, dispPc, consPc, procPc, sTarget,
                 xfers, histVars, resumesLeft, sFailLeft>>

\* doPrepareMirrorURLs finds URLsCh closed: the totals are stored, the session
\* is saved, and doMirrorSession goes on to the transfer
PrepareDone ==
  /\ procPc = "prep" /\ Len(sessionData) = Cardinality(DOMAIN wk)
  /\ procPc' = "run"
  /\ HeaderTotalBytes' = prepTotalBytes
  /\ HeaderTotalObjects' = prepTotalObjects
  /\ UNCHANGED <<prepTotalBytes, prepTotalObjects, prepSkipped>>
  /\ UNCHANGED <<sessionFlags, sessionExists, LastCopied, closureVars, scanPos,
                 mirrorQueue, wk, wkErr, dispPc, consPc, sTarget, xfers,
                 histVars, resumesLeft, sFailLeft>>

\* doPrepareMirrorURLs takes the interrupt: session.Delete(), os.Exit(0)
PrepareTrap ==
  /\ procPc = "prep"
  /\ sessionExists' = FALSE
  /\ procPc' = "aborted"
  /\ UNCHANGED <<sessionFlags, LastCopied, closureVars, scanPos, mirrorQueue,
                 wk, wkErr, dispPc, consPc, sTarget, xfers, histVars,
                 resumesLeft, sFailLeft>>

\* dispatcher goroutine, one line of the data file: a copied item is replayed
\* by doMirrorFake, any other item first takes a slot of the gate
Dispatch ==
  /\ procPc = "run" /\ dispPc = "scan" /\ scanPos <= Len(sessionData)
  /\ LET name == sessionData[scanPos] IN
       /\ copied' = isCopiedNext(name)
       /\ IF isCopied(name)
            THEN /\ scanPos' = scanPos + 1
                 /\ UNCHANGED <<mirrorQueue, dispPc>>
            ELSE /\ GateFree
                 /\ mirrorQueue' = mirrorQueue + 1
                 /\ dispPc' = "go"
                 /\ UNCHANGED scanPos
  /\ UNCHANGED <<sessionFlags, sessionExists, LastCopied, lastCopied, wk, wkErr,
                 consPc, procPc, sTarget, xfers, histVars, resumesLeft,
                 sFailLeft>>

\* dispatcher goroutine, with the slot taken: go doMirror(sURLs, ...)
GoDoMirror ==
  /\ procPc = "run" /\ dispPc = "go"
  /\ wk' = [wk EXCEPT ![sessionData[scanPos]] = "started"]
  /\ scanPos' = scanPos + 1
  /\ dispPc' = "scan"
  /\ UNCHANGED <<sessionFlags, sessionExists, LastCopied, closureVars,
                 mirrorQueue, wkErr, consPc, procPc, sTarget, xfers, histVars,
                 resumesLeft, sFailLeft>>

\* doMirror up to its send on statusCh: getSource, then putTargets
doMirror ==
  /\ procPc = "run"
  /\ \E i \in DOMAIN wk, outcome \in {"ok", "getErr", "putErr"},
        class \in {"none", "net", "other"} :
       /\ wk[i] = "started"
       /\ (outcome = "ok") = (class = "none")
       /\ outcome # "ok" => sFailLeft > 0
       /\ wk' = [wk EXCEPT ![i] = "sending"]
       /\ wkErr' = [wkErr EXCEPT ![i] = class]
       /\ sTarget' = IF outcome = "ok" THEN sTarget \cup {i} ELSE sTarget
       /\ xfers' = IF outcome = "getErr" THEN xfers
                   ELSE [xfers EXCEPT ![i] = @ + 1]
       /\ sFailLeft' = IF outcome = "ok" THEN sFailLeft ELSE sFailLeft - 1
  /\ UNCHANGED <<sessionFlags, sessionExists, LastCopied, closureVars, scanPos,
                 mirrorQueue, dispPc, consPc, procPc, histVars, resumesLeft>>

\* variant of the error switch that saves and stops on every error
isNetErrorAlways(class) == TRUE

\* variant of the error switch without the two network cases
isNetErrorNever(class) == FALSE

\* the switch on the error type: *net.OpError and net.Error
isNetError(class) == class = "net"

\* variant of the status goroutine that moves the marker for every status it
\* receives
StatusRecvMarksAll ==
  /\ procPc = "run" /\ consPc = "run"
  /\ \E i \in DOMAIN wk :
       /\ wk[i] = "sending"
       /\ wk' = [wk EXCEPT ![i] = "sent"]
       /\ LastCopied' = i
       /\ IF wkErr[i] = "none"
            THEN /\ recordedNow' = recordedNow \cup {i}
                 /\ UNCHANGED <<failedItems, procPc>>
            ELSE /\ failedItems' = failedItems \cup {i}
                 /\ procPc' = IF isNetError(wkErr[i]) THEN "stopped" ELSE procPc
                 /\ UNCHANGED recordedNow
  /\ UNCHANGED <<sessionFlags, sessionExists, closureVars, scanPos,
                 mirrorQueue, wkErr, dispPc, consPc, sTarget, xfers,
                 recordedPrev, resumesLeft, sFailLeft>>

\* status goroutine, one status received from a worker: a success moves the
\* marker and saves the session, a failure is reported and, when it is of
\* network class, gracefulSessionSave saves the session and ends the process
StatusRecv ==
  /\ procPc = "run" /\ consPc = "run"
  /\ \E i \in DOMAIN wk :
       /\ wk[i] = "sending"
       /\ wk' = [wk EXCEPT ![i] = "sent"]
       /\ IF wkErr[i] = "none"
            THEN /\ LastCopied' = i
                 /\ recordedNow' = recordedNow \cup {i}
                 /\ UNCHANGED <<failedItems, procPc>>
            ELSE /\ failedItems' = failedItems \cup {i}
                 /\ procPc' = IF isNetError(wkErr[i]) THEN "stopped" ELSE procPc
                 /\ UNCHANGED <<LastCopied, recordedNow>>
  /\ UNCHANGED <<sessionFlags, sessionExists, closureVars, scanPos,
                 mirrorQueue, wkErr, dispPc, consPc, sTarget, xfers,
                 recordedPrev, resumesLeft, sFailLeft>>

\* variant of doMirror that releases the slot at its last statement only, so
\* that a return after a failure keeps the slot
WorkerExitKeepsSlotOnFailure ==
  /\ procPc = "run"
  /\ \E i \in DOMAIN wk :
       /\ wk[i] = "sent"
       /\ wk' = [wk EXCEPT ![i] = "done"]
       /\ mirrorQueue' = IF wkErr[i] = "none" THEN mirrorQueue - 1
                         ELSE mirrorQueue
  /\ UNCHANGED <<sessionFlags, sessionExists, LastCopied, closureVars, scanPos,
                 wkErr, dispPc, consPc, procPc, sTarget, xfers, histVars,
                 resumesLeft, sFailLeft>>

\* the deferred calls of doMirror: the slot is released, then wg.Done
WorkerExit ==
  /\ procPc = "run"
  /\ \E i \in DOMAIN wk :
       /\ wk[i] = "sent"
       /\ wk' = [wk EXCEPT ![i] = "done"]
       /\ mirrorQueue' = mirrorQueue - 1
  /\ UNCHANGED <<sessionFlags, sessionExists, LastCopied, closureVars, scanPos,
                 wkErr, dispPc, consPc, procPc, sTarget, xfers, histVars,
                 resumesLeft, sFailLeft>>

\* variant of the end of the dispatcher without mirrorWg.Wait()
DispatchDoneNoWait ==
  /\ procPc = "run" /\ dispPc = "scan" /\ scanPos > Len(sessionData)
  /\ dispPc' = "closed"
  /\ UNCHANGED <<sessionFlags, sessionExists, LastCopied, closureVars, scanPos,
                 mirrorQueue, wk, wkErr, consPc, procPc, sTarget, xfers,
                 histVars, resumesLeft, sFailLeft>>

\* the dispatcher has read every line and mirrorWg.Wait() returns:
\* close(statusCh)
DispatchDone ==
  /\ procPc = "run" /\ dispPc = "scan" /\ scanPos > Len(sessionData)
  /\ InFlight = {}
  /\ dispPc' = "closed"
  /\ UNCHANGED <<sessionFlags, sessionExists, LastCopied, closureVars, scanPos,
                 mirrorQueue, wk, wkErr, consPc, procPc, sTarget, xfers,
                 histVars, resumesLeft, sFailLeft>>

\* the status goroutine finds statusCh closed and finishes
ConsumerFinish ==
  /\ procPc = "run" /\ consPc = "run" /\ dispPc = "closed"
  /\ consPc' = "finished"
  /\ UNCHANGED <<sessionFlags, sessionExists, LastCopied, closureVars, scanPos,
                 mirrorQueue, wk, wkErr, dispPc, procPc, sTarget, xfers,
                 histVars, resumesLeft, sFailLeft>>

\* variant of the wait that returns at once
wgWaitSkipped == TRUE

\* wg.Wait() of doMirrorSession returns: the status goroutine and the
\* dispatcher goroutine have both finished
wgWaitReturns == consPc = "finished" /\ dispPc = "closed"

\* wg.Wait() returns, doMirrorSession returns to mainMirror: session.Delete()
SessionReturn ==
  /\ procPc = "run" /\ wgWaitReturns
  /\ procPc' = "done"
  /\ sessionExists' = FALSE
  /\ UNCHANGED <<sessionFlags, LastCopied, closureVars, scanPos, mirrorQueue,
                 wk, wkErr, dispPc, consPc, sTarget, xfers, histVars,
                 resumesLeft, sFailLeft>>

\* the status goroutine takes the interrupt: gracefulSessionSave saves the
\* session and ends the process; the workers in flight end with it
Interrupt ==
  /\ procPc = "run" /\ consPc = "run"
  /\ procPc' = "stopped"
  /\ UNCHANGED <<sessionFlags, sessionExists, LastCopied, closureVars, scanPos,
                 mirrorQueue, wk, wkErr, dispPc, consPc, sTarget, xfers,
                 histVars, resumesLeft, sFailLeft>>

\* the stopped session is resumed: doMirrorSession starts again on the saved
\* session, with isCopiedFactory(session.Header.LastCopied)
Resume ==
  /\ procPc = "stopped" /\ sessionExists /\ resumesLeft > 0
  /\ resumesLeft' = resumesLeft - 1
  /\ procPc' = "run" /\ dispPc' = "scan" /\ consPc' = "run"
  /\ lastCopied' = LastCopied /\ copied' = TRUE
  /\ scanPos' = 1 /\ mirrorQueue' = 0
  /\ wk' = [i \in DOMAIN wk |-> "none"]
  /\ wkErr' = [i \in DOMAIN wk |-> "none"]
  /\ recordedPrev' = recordedPrev \cup recordedNow
  /\ recordedNow' = {}
  /\ UNCHANGED <<sessionFlags, sessionExists, LastCopied, sTarget, xfers,
                 failedItems, sFailLeft>>

\* the watch-capable engine is not part of a session run
MirrorIdle ==
  /\ isForce = FALSE /\ isFake = FALSE /\ isRemove = FALSE /\ isWatch = FALSE
  /\ src = <<>> /\ tgt = <<>> /\ diffPos = 1 /\ diffErrLeft = 0
  /\ genPc = "closed" /\ URLsCh = <<>> /\ emitted = <<>>
  /\ walkPc = "returned" /\ TotalObjects = 0 /\ TotalBytes = 0
  /\ prepErrs = <<>> /\ events = <<>> /\ watchErrs = <<>> /\ evLeft = 0
  /\ watchPc = "off" /\ watcherRunning = FALSE /\ monErrs = <<>>
  /\ statusCh = [w \in Producers |-> <<>>]
  /\ statusLog = [w \in Producers |-> <<>>]
  /\ statusPc = "loop"
  /\ handed = [w \in Producers |-> <<>>]
  /\ statusTotal = 0 /\ statusAdded = 0
  /\ putCalls = <<>> /\ removeCalls = <<>> /\ ioFailLeft = 0
  /\ exited = TRUE

\* doMirrorSession on a new session, which has no data yet
InitSession ==
  /\ MirrorIdle
  /\ DiffIdle
  /\ BarIdle
  /\ EmptyIdle
  /\ FakeIdle
  /\ NumCPU \in 1..MaxCPU
  /\ sessionData = <<>>
  /\ sessionExists = TRUE
  /\ LastCopied = 0 /\ lastCopied = 0 /\ copied = TRUE
  /\ scanPos = 1 /\ mirrorQueue = 0
  /\ wk = [i \in Items |-> "none"] /\ wkErr = [i \in Items |-> "none"]
  /\ dispPc = "scan" /\ consPc = "run" /\ procPc = "prep"
  /\ sTarget = {} /\ xfers = [i \in Items |-> 0]
  /\ recordedPrev = {} /\ recordedNow = {} /\ failedItems = {}
  /\ resumesLeft = MaxResume /\ sFailLeft = MaxIOFail
  /\ prepTotalBytes = 0 /\ prepTotalObjects = 0
  /\ HeaderTotalBytes = 0 /\ HeaderTotalObjects = 0 /\ prepSkipped = <<>>

NextSession ==
  \/ PrepareURL /\ UNCHANGED <<mvars, dvars, pvars, evars, fvars>>
  \/ PrepareDone /\ UNCHANGED <<mvars, dvars, pvars, evars, fvars>>
  \/ PrepareTrap /\ UNCHANGED <<mvars, dvars, pvars, prepVars, evars, fvars>>
  \/ Dispatch /\ UNCHANGED <<mvars, dvars, pvars, prepVars, evars, fvars>>
  \/ GoDoMirror /\ UNCHANGED <<mvars, dvars, pvars, prepVars, evars, fvars>>
  \/ doMirror /\ UNCHANGED <<mvars, dvars, pvars, prepVars, evars, fvars>>
  \/ StatusRecv /\ UNCHANGED <<mvars, dvars, pvars, prepVars, evars, fvars>>
  \/ WorkerExit /\ UNCHANGED <<mvars, dvars, pvars, prepVars, evars, fvars>>
  \/ DispatchDone /\ UNCHANGED <<mvars, dvars, pvars, prepVars, evars, fvars>>
  \/ ConsumerFinish /\ UNCHANGED <<mvars, dvars, pvars, prepVars, evars, fvars>>
  \/ SessionReturn /\ UNCHANGED <<mvars, dvars, pvars, prepVars, evars, fvars>>
  \/ Interrupt /\ UNCHANGED <<mvars, dvars, pvars, prepVars, evars, fvars>>
  \/ Resume /\ UNCHANGED <<mvars, dvars, pvars, prepVars, evars, fvars>>


SpecSession == InitSession /\ [][NextSession]_vars

\* a first run of the session-based engine whose item sequence also holds
\* items that carry an error and empty items
NextPrepare ==
  \/ PrepareError /\ UNCHANGED <<mvars, dvars, pvars, evars, fvars>>
  \/ PrepareEmpty /\ UNCHANGED <<mvars, dvars, pvars, evars, fvars>>
  \/ PrepareURL /\ UNCHANGED <<mvars, dvars, pvars, evars, fvars>>
  \/ PrepareDone /\ UNCHANGED <<mvars, dvars, pvars, evars, fvars>>
  \/ PrepareTrap /\ UNCHANGED <<mvars, dvars, pvars, prepVars, evars, fvars>>
  \/ Dispatch /\ UNCHANGED <<mvars, dvars, pvars, prepVars, evars, fvars>>
  \/ GoDoMirror /\ UNCHANGED <<mvars, dvars, pvars, prepVars, evars, fvars>>
  \/ doMirror /\ UNCHANGED <<mvars, dvars, pvars, prepVars, evars, fvars>>
  \/ StatusRecv /\ UNCHANGED <<mvars, dvars, pvars, prepVars, evars, fvars>>
  \/ WorkerExit /\ UNCHANGED <<mvars, dvars, pvars, prepVars, evars, fvars>>
  \/ DispatchDone /\ UNCHANGED <<mvars, dvars, pvars, prepVars, evars, fvars>>
  \/ ConsumerFinish /\ UNCHANGED <<mvars, dvars, pvars, prepVars, evars, fvars>>
  \/ SessionReturn /\ UNCHANGED <<mvars, dvars, pvars, prepVars, evars, fvars>>

SpecPrepare == InitSession /\ [][NextPrepare]_vars

\* the same run under a scheduler that lets a goroutine that can take a step
\* take it eventually
SpecPrepareFair == SpecPrepare /\ WF_vars(NextPrepare)

\* ------------------------------------------------- directory differencer
\* a record sent on ch: its diffType ("Only-in", "Type", "Size", or "err" for
\* a record that carries an error), and the path it is about
diff(diffType, p) == [diffType |-> diffType, path |-> p]

\* the records doDiffObjects sends for two regular objects that both exist:
\* none when the two stat results carry the same Name, else a "Size" record
\* when the sizes differ
doDiffObjects(first, second, sameName, p) ==
  IF sameName THEN <<>>
  ELSE IF first.size # second.size THEN <<diff("Size", p)>>
  ELSE <<>>

\* the records one iteration of dodiff's loop sends for the listed path p
dodiffBody(p, sameName) ==
  LET newFirstContent == firstClnt[p]
      newSecondContent == secondClnt[p]
  IN  IF newSecondContent.kind = "none" THEN <<diff("Only-in", p)>>
      ELSE IF newFirstContent.kind = "dir"
        THEN IF newSecondContent.kind # "dir" THEN <<diff("Type", p)>>
             ELSE <<>>
      ELSE IF newSecondContent.kind # "file" THEN <<diff("Type", p)>>
      ELSE doDiffObjects(newFirstContent, newSecondContent, sameName, p)

\* the names the loops range over: the entries of the first listing that have
\* not been delivered yet
FirstRest == {p \in DOMAIN firstClnt : p >= listPos /\ firstClnt[p].kind # "none"}
FirstNext == CHOOSE p \in FirstRest : \A q \in FirstRest : p <= q

\* dodiff: one iteration of `for contentCh := range firstClnt.List(false)`
dodiff ==
  /\ ~recursive /\ diffPc = "loop" /\ FirstRest # {}
  /\ \E sameName \in BOOLEAN :
       ch' = ch \o dodiffBody(FirstNext, sameName)
  /\ visited' = Append(visited, FirstNext)
  /\ listPos' = FirstNext + 1
  /\ UNCHANGED <<firstClnt, secondClnt, recursive, diffPc>>

\* dodiff: the listing delivers an error; it is reported and dodiff returns
dodiffListErr ==
  /\ ~recursive /\ diffPc = "loop" /\ FirstRest # {}
  /\ ch' = Append(ch, diff("err", FirstNext))
  /\ diffPc' = "returned"
  /\ UNCHANGED <<firstClnt, secondClnt, recursive, listPos, visited>>

\* dodiffRecursive: one iteration of `for matchName := range matchNameCh`,
\* the names firstTrie.Visit delivers; secondTrie.Match is the only test
dodiffRecursive ==
  /\ recursive /\ diffPc = "loop" /\ FirstRest # {}
  /\ ch' = IF secondClnt[FirstNext].kind = "none"
             THEN Append(ch, diff("Only-in", FirstNext))
             ELSE ch
  /\ visited' = Append(visited, FirstNext)
  /\ listPos' = FirstNext + 1
  /\ UNCHANGED <<firstClnt, secondClnt, recursive, diffPc>>

\* the first listing is exhausted: the loop ends and doDiffDirs returns
doDiffDirsReturn ==
  /\ diffPc = "loop" /\ FirstRest = {}
  /\ diffPc' = "returned"
  /\ UNCHANGED <<firstClnt, secondClnt, recursive, listPos, ch, visited>>

\* doDiffDirs on two finite sorted listings
InitDiff ==
  /\ MirrorIdle
  /\ SessionIdle
  /\ BarIdle
  /\ EmptyIdle
  /\ FakeIdle
  /\ firstClnt \in TgtTrees(Paths)
  /\ secondClnt \in TgtTrees(Paths)
  /\ recursive \in BOOLEAN
  /\ listPos = 1 /\ diffPc = "loop" /\ ch = <<>> /\ visited = <<>>

NextDoDiff ==
  \/ dodiff /\ UNCHANGED <<mvars, svars, pvars, evars, fvars>>
  \/ dodiffListErr /\ UNCHANGED <<mvars, svars, pvars, evars, fvars>>
  \/ dodiffRecursive /\ UNCHANGED <<mvars, svars, pvars, evars, fvars>>
  \/ doDiffDirsReturn /\ UNCHANGED <<mvars, svars, pvars, evars, fvars>>

SpecDiff == InitDiff /\ [][NextDoDiff]_vars

\* ------------------------------------------------------- progress bar
\* the workers that run at the same time: as many as the gate admits for a
\* machine of n CPUs
Readers(n) == 1..(IF n - 1 > 1 THEN n - 1 ELSE 1)

\* the byte counts one Read of the wrapped reader may return
ReadSizes == {0, 10}

\* proxyReader.Read: n, err = r.ReadCloser.Read(p), then r.bar.Progress(n)
ProxyRead ==
  \E w \in DOMAIN rdPc, n \in ReadSizes :
    /\ rdPc[w] = "read" /\ readsLeft > 0
    /\ rdN' = [rdN EXCEPT ![w] = n]
    /\ readsLeft' = readsLeft - 1
    /\ reported' = reported + n
    /\ rdPc' = [rdPc EXCEPT ![w] = "load"]
    /\ UNCHANGED <<transferred, opCh, totalBytesRead, rdTmp>>

\* barSend.Progress, the right-hand side of the assignment: b.transferred is
\* loaded; the bar is shared by the workers and the field is not guarded
ProgressLoad ==
  \E w \in DOMAIN rdPc :
    /\ rdPc[w] = "load"
    /\ rdTmp' = [rdTmp EXCEPT ![w] = transferred]
    /\ rdPc' = [rdPc EXCEPT ![w] = "store"]
    /\ UNCHANGED <<transferred, opCh, totalBytesRead, rdN, readsLeft,
                   reported>>

\* barSend.Progress, the assignment: b.transferred = <loaded value> + progress
ProgressStore ==
  \E w \in DOMAIN rdPc :
    /\ rdPc[w] = "store"
    /\ transferred' = rdTmp[w] + rdN[w]
    /\ rdPc' = [rdPc EXCEPT ![w] = "send"]
    /\ UNCHANGED <<opCh, totalBytesRead, rdN, rdTmp, readsLeft, reported>>

\* barSend.Progress: b.opCh <- barMsg{Op: pbBarProgress, Arg: progress}; the
\* worker then returns from Read
ProgressSend ==
  \E w \in DOMAIN rdPc :
    /\ rdPc[w] = "send" /\ opCh = <<>>
    /\ opCh' = <<rdN[w]>>
    /\ rdPc' = [rdPc EXCEPT ![w] = "read"]
    /\ UNCHANGED <<transferred, totalBytesRead, rdN, rdTmp, readsLeft,
                   reported>>

\* the goroutine of newProgressBar receives a pbBarProgress message
BarProgress ==
  /\ opCh # <<>>
  /\ totalBytesRead' = IF Head(opCh) > 0 THEN totalBytesRead + Head(opCh)
                       ELSE totalBytesRead
  /\ opCh' = <<>>
  /\ UNCHANGED <<transferred, rdPc, rdN, rdTmp, readsLeft, reported>>

\* the workers the gate has admitted read their sources through the proxy
\* readers of one bar
InitProgress ==
  /\ MirrorIdle
  /\ SessionIdle
  /\ DiffIdle
  /\ EmptyIdle
  /\ FakeIdle
  /\ transferred = 0 /\ opCh = <<>> /\ totalBytesRead = 0 /\ reported = 0
  /\ \E n \in 1..MaxCPU :
       /\ rdPc = [w \in Readers(n) |-> "read"]
       /\ rdN = [w \in Readers(n) |-> 0]
       /\ rdTmp = [w \in Readers(n) |-> 0]
  /\ readsLeft = MaxReads

NextProgress ==
  \/ ProxyRead /\ UNCHANGED <<mvars, svars, dvars, evars, fvars>>
  \/ ProgressLoad /\ UNCHANGED <<mvars, svars, dvars, evars, fvars>>
  \/ ProgressStore /\ UNCHANGED <<mvars, svars, dvars, evars, fvars>>
  \/ ProgressSend /\ UNCHANGED <<mvars, svars, dvars, evars, fvars>>
  \/ BarProgress /\ UNCHANGED <<mvars, svars, dvars, evars, fvars>>

SpecProgress == InitProgress /\ [][NextProgress]_vars

\* ----------------------------------------------------- emptiness test
\* mirrorURLs.isEmpty: Go evaluates the operands of && from the left, so the
\* second test reads m.SourceContent.Size first and faults on a nil source
isEmpty(m) ==
  IF m.SourceContent = 0 /\ m.TargetContent = 0 /\ m.Error.kind = "none"
    THEN "true"
  ELSE IF m.SourceContent = 0 THEN "fault"
  ELSE IF m.Size = 0 /\ m.TargetContent = 0 /\ m.Error.kind = "none"
    THEN "true"
  ELSE "false"

\* the items the test may be given: an absent (0) or present source entry
\* with its size, an absent or present target entry, no error or an error
EmptyInputs ==
  {URLs(sc, size, tc, Err(e, 0)) :
     sc \in 0..MaxPath, size \in {0} \cup {10 * p : p \in Paths},
     tc \in 0..MaxPath,
     e \in {"none", "listErr", "errInvalidTarget"}}

\* isEmpty is called on the item
CallIsEmpty ==
  /\ emResult = "unset"
  /\ emResult' = isEmpty(emItem)
  /\ UNCHANGED <<emItem, emPrep>>

\* doPrepareMirrorURLs receives the item: an item with an error is reported
\* before the test, an empty item is skipped, any other item is logged
PrepareClassify ==
  /\ emPrep = "unset"
  /\ emPrep' = IF emItem.Error.kind # "none" THEN "reported"
               ELSE IF isEmpty(emItem) = "fault" THEN "fault"
               ELSE IF isEmpty(emItem) = "true" THEN "skipped"
               ELSE "logged"
  /\ UNCHANGED <<emItem, emResult>>

InitEmpty ==
  /\ MirrorIdle
  /\ SessionIdle
  /\ DiffIdle
  /\ BarIdle
  /\ FakeIdle
  /\ emItem \in {m \in EmptyInputs : m.SourceContent = 0 => m.Size = 0}
  /\ emResult = "unset" /\ emPrep = "unset"

NextEmpty ==
  \/ CallIsEmpty /\ UNCHANGED <<mvars, svars, dvars, pvars, fvars>>
  \/ PrepareClassify /\ UNCHANGED <<mvars, svars, dvars, pvars, fvars>>

SpecEmpty == InitEmpty /\ [][NextEmpty]_vars

\* ------------------------------------------- replay of a resumed session
\* isCopied(name) of isCopiedFactory(session.Header.LastCopied) for the
\* replayed session: true up to and including the marker
fakeIsCopied(name) == fakeMarker # 0 /\ fakeCopied

fakeFlags == <<globalQuietFlag, globalJSONFlag, globalDebugFlag>>

\* doMirrorSession sets up the progress sink: the interactive bar unless
\* quiet or json is set, the silent accounter otherwise
SetUpProgress ==
  /\ progressReader = "nil"
  /\ progressReader' = IF ~globalQuietFlag /\ ~globalJSONFlag
                       THEN "barSend" ELSE "accounter"
  /\ UNCHANGED <<fakeFlags, fakeSize, fakeMarker, fakeCopied, fakePos, fakeBar,
                 fakeAddressed, fakeReplayed, fakeStarted, fakeOutcome>>

\* doMirrorFake(sURLs, progressReader): unless debug or json is set the
\* sink is asserted to be the bar and the item's size is added to it; the
\* assertion fails when the sink is the accounter
doMirrorFake(i) ==
  /\ fakeReplayed' = fakeReplayed \cup {i}
  /\ IF ~globalDebugFlag /\ ~globalJSONFlag
       THEN /\ fakeAddressed' = "barSend"
            /\ IF progressReader = "barSend"
                 THEN fakeBar' = fakeBar + fakeSize[i] /\ fakeOutcome' = "ok"
                 ELSE fakeOutcome' = "fault" /\ UNCHANGED fakeBar
       ELSE UNCHANGED <<fakeAddressed, fakeBar, fakeOutcome>>

\* the dispatcher scans a line that isCopied reports as already copied
ReplayCopied ==
  /\ progressReader # "nil" /\ fakeOutcome = "ok"
  /\ fakePos \in DOMAIN fakeSize
  /\ fakeIsCopied(fakePos)
  /\ doMirrorFake(fakePos)
  /\ fakeCopied' = (fakeMarker # fakePos)
  /\ fakePos' = fakePos + 1
  /\ UNCHANGED <<fakeFlags, progressReader, fakeSize, fakeMarker, fakeStarted>>

\* the dispatcher scans a line that is still to be copied: a transfer starts
ReplayFresh ==
  /\ progressReader # "nil" /\ fakeOutcome = "ok"
  /\ fakePos \in DOMAIN fakeSize
  /\ ~fakeIsCopied(fakePos)
  /\ fakeStarted' = fakeStarted \cup {fakePos}
  /\ fakePos' = fakePos + 1
  /\ UNCHANGED <<fakeFlags, progressReader, fakeSize, fakeMarker, fakeCopied,
                 fakeBar, fakeAddressed, fakeReplayed, fakeOutcome>>

InitFake ==
  /\ MirrorIdle
  /\ SessionIdle
  /\ DiffIdle
  /\ BarIdle
  /\ EmptyIdle
  /\ globalQuietFlag \in BOOLEAN /\ globalJSONFlag \in BOOLEAN
  /\ globalDebugFlag \in BOOLEAN
  /\ progressReader = "nil"
  /\ fakeSize \in [Items -> {10 * p : p \in Paths}]
  /\ fakeMarker \in 0..MaxItems
  /\ fakeCopied = TRUE /\ fakePos = 1 /\ fakeBar = 0 /\ fakeAddressed = "none"
  /\ fakeReplayed = {} /\ fakeStarted = {} /\ fakeOutcome = "ok"

NextFake ==
  \/ SetUpProgress /\ UNCHANGED <<mvars, svars, dvars, pvars, evars>>
  \/ ReplayCopied /\ UNCHANGED <<mvars, svars, dvars, pvars, evars>>
  \/ ReplayFresh /\ UNCHANGED <<mvars, svars, dvars, pvars, evars>>

SpecFake == InitFake /\ [][NextFake]_vars

\* ================================================================ properties
\* the messages a producer has put on statusCh so far, received or not
StatusMsgs(who) ==
  {statusCh[who][k] : k \in 1..Len(statusCh[who])}
    \cup {statusLog[who][k] : k \in 1..Len(statusLog[who])}

\* a delete item: no source content, a target content, no error on creation
IsDelete(sURLs) == sURLs.SourceContent = 0 /\ sURLs.TargetContent # 0

\* a copy item
IsCopy(sURLs) == sURLs.SourceContent # 0 /\ sURLs.TargetContent # 0

\* the entries the differencer has delivered with a given classification
Classified(dTypes) ==
  {k \in 1..Len(emitted) :
     emitted[k].d.err.kind = "none" /\ emitted[k].d.dType \in dTypes}

\* ------------------------------------------------------------------------ C1
\* C1: whatever the interleaving of walk items and watcher Remove events, a
\* remove operation reaches the target, and a delete item reaches the status
\* channel, only in a run where remove and force are both set.
C1_RemoveNeedsRemoveAndForce ==
  (\/ \E p \in DOMAIN removeCalls : removeCalls[p] > 0
   \/ \E who \in Producers : \E m \in StatusMsgs(who) : IsDelete(m))
    => (isRemove /\ isForce)

\* a watcher Remove event has removed the target object after the walk had
\* copied it
C1_Witness ==
  /\ isRemove /\ isForce
  /\ \E p \in DOMAIN removeCalls :
       removeCalls[p] > 0 /\ putCalls[p] > 0 /\ tgt[p].kind = "none"
  /\ \E m \in StatusMsgs("watch") : IsDelete(m)
  /\ \E m \in StatusMsgs("walk") : IsCopy(m)

\* ------------------------------------------------------------------------ C2
\* C2: a session that was interrupted and resumed, and in which no transfer
\* failed, ends with every logged item on the target, as the uninterrupted
\* run does.
C2_ResumeReachesSameTarget ==
  (procPc = "done" /\ resumesLeft < MaxResume /\ failedItems = {})
    => sTarget = {sessionData[k] : k \in 1..Len(sessionData)}

\* ------------------------------------------------------------------------ C3
\* C3: an item whose success was recorded before the interruption gets no
\* worker in the resumed run.
C3_RecordedNeverTransferredAgain ==
  \A i \in recordedPrev : wk[i] = "none"

\* ------------------------------------------------------------------------ C4
\* C4: without force and without fake, an object that is on both sides with
\* another size yields exactly one overwrite-not-allowed error item, no copy
\* item, and no write to the target.
C4_SizeMismatchWithoutForceIsAnError ==
  (~isForce /\ ~isFake) =>
    \A k \in Classified({"differInSize"}) :
      /\ Len(emitted[k].out) = 1
      /\ emitted[k].out[1].Error.kind = "errOverWriteNotAllowed"
      /\ putCalls[emitted[k].d.path] = 0

\* ------------------------------------------------------------------------ C5
\* C5: with force, an object that is on both sides with another size yields a
\* copy item, whatever remove and fake are.
C5_SizeMismatchWithForceIsCopied ==
  isForce =>
    \A k \in Classified({"differInSize"}) :
      /\ Len(emitted[k].out) = 1
      /\ IsCopy(emitted[k].out[1])
      /\ emitted[k].out[1].Error.kind = "none"

\* ------------------------------------------------------------------------ C6
\* C6: an object that is identical on both sides, or differs in modification
\* time only, yields no item at all: no copy, no delete, no error, for every
\* combination of the flags.
C6_IdenticalOrTimeOnlyYieldsNothing ==
  \A k \in Classified({"differInNone", "differInTime"}) :
    emitted[k].out = <<>>

\* ------------------------------------------------------------------------ C7
\* C7: a path whose type differs on the two sides yields exactly one error
\* item, never a copy or a delete, and nothing is written to or removed from
\* it, for every combination of the flags.
C7_TypeMismatchIsOneError ==
  \A k \in Classified({"differInType"}) :
    /\ Len(emitted[k].out) = 1
    /\ emitted[k].out[1].Error.kind = "errInvalidTarget"
    /\ ~IsCopy(emitted[k].out[1]) /\ ~IsDelete(emitted[k].out[1])
    /\ putCalls[emitted[k].d.path] = 0
    /\ removeCalls[emitted[k].d.path] = 0

\* a finished walk with force and remove set that met a type mismatch and
\* reported it
C7_Witness ==
  /\ isForce /\ isRemove /\ walkPc = "returned"
  /\ Classified({"differInType"}) # {}
  /\ \E k \in 1..Len(prepErrs) : prepErrs[k].kind = "errInvalidTarget"

\* ------------------------------------------------------------------------ C8
\* C8: with remove and force, a walk over a source that holds one object and a
\* target that holds the same object and a stale one ends with the stale
\* object removed by one delete item: one processed item, zero bytes.
C8_StaleTargetObjectIsDeleted ==
  (/\ isRemove /\ isForce /\ ~isFake /\ walkPc = "returned"
   /\ ioFailLeft = MaxIOFail
   /\ Len(emitted) = 2
   /\ Classified({"differInNone"}) = {1}
   /\ Classified({"differInSecond"}) = {2})
    => /\ Len(emitted[2].out) = 1
       /\ IsDelete(emitted[2].out[1])
       /\ tgt[emitted[2].d.path].kind = "none"
       /\ removeCalls[emitted[2].d.path] = 1
       /\ TotalObjects = 1 /\ TotalBytes = 0 /\ statusAdded = 0

\* ------------------------------------------------------------------------ C9
\* C9: the workers in flight never outnumber the slots taken of the gate, and
\* the slots taken never outnumber max(NumCPU - 1, 1): a worker is started
\* with its slot already taken.
C9_InFlightBoundedByGate ==
  /\ Cardinality(InFlight) <= mirrorQueue
  /\ mirrorQueue <= GateCapacity
  /\ GateCapacity = (IF NumCPU > 2 THEN NumCPU - 1 ELSE 1)

\* the gate is full and the dispatcher waits at it with a further item
C9_Witness ==
  /\ procPc = "run" /\ dispPc = "scan" /\ scanPos <= Len(sessionData)
  /\ ~isCopied(sessionData[scanPos])
  /\ Cardinality(InFlight) = GateCapacity
  /\ mirrorQueue = GateCapacity

\* ----------------------------------------------------------------------- C10
\* C10: a Create event of unknown size whose source can no longer be stat'ed
\* is dropped: the watcher puts no message for it on the status channel, so
\* that nothing is reported.
C10_StatFailureIsDropped ==
  /\ \A m \in StatusMsgs("watch") : m.Error.kind # "statErr"
  /\ \A k \in 1..Len(Shown(statusLog["watch"])) :
       Shown(statusLog["watch"])[k].err.kind # "statErr"

\* ----------------------------------------------------------------------- C11
\* the watcher takes a Create event whose clients can be created and, when
\* its size is not known, whose source can be stat'ed
CreateTaken ==
  /\ ~exited /\ watchPc = "recv" /\ events # <<>> /\ events' = Tail(events)
  /\ Head(events).Type = "Create"
  /\ ioFailLeft' = ioFailLeft \/ statusTotal' # statusTotal
  /\ Head(events).Size = 0 => src[Head(events).Path].kind # "none"

IsResult(m) == m.Error.kind \notin {"clientErr", "statErr"}

\* the results the status goroutine has received from one producer
ExecLog(who) == SelectSeq(statusLog[who], IsResult)

\* everything that was shown for the k-th item a producer has executed
SinkFor(who, k) ==
  doMirrorPrintMsg(handed[who][k]) \o startStatus(ExecLog(who)[k])

\* C12: for every executed item whose status was consumed, exactly one message
\* was shown: a success message (mirrorMessage, rmMessage) when the item
\* completed, an error message when it failed.
C12_ExactlyOneMessagePerItem ==
  \A who \in Producers : \A k \in 1..Len(ExecLog(who)) :
    /\ Len(SinkFor(who, k)) = 1
    /\ (SinkFor(who, k)[1].what \in {"mirrorMessage", "rmMessage"})
         = (ExecLog(who)[k].Error.kind = "none")

\* ----------------------------------------------------------------------- C13
\* the errors of the error items the generator has sent, in order
RECURSIVE EmittedErrors(_)
EmittedErrors(es) ==
  IF es = <<>> THEN <<>>
  ELSE (IF Head(es).out # <<>> /\ Head(es).out[1].Error.kind # "none"
          THEN <<Head(es).out[1].Error>> ELSE <<>>)
         \o EmittedErrors(Tail(es))

\* mj.doMirror, given an item that carries an error, returns it as it is and
\* touches nothing
DoMirrorForwardsErrors ==
  \A p \in DOMAIN src, fail \in BOOLEAN :
    LET sURLs == WithError(URLs(p, src[p].size, p, NoError), Err("listErr", p))
        o == mjDoMirror(sURLs, fail)
    IN  /\ o.res = sURLs /\ ~o.failed
        /\ o.tgt = tgt /\ o.puts = putCalls /\ o.removes = removeCalls
        /\ o.added = statusAdded

StatusTaken(i) == wk[i] = "sending" /\ wk'[i] = "sent"

\* C14: a failure that is not of network class leaves the run going and
\* touches no other worker; the transfer stops only on an interrupt or on a
\* failure of network class; a run that was never stopped ends with every
\* item dispatched and every status consumed, failed items included.
C14_ItemFailureDoesNotAbort ==
  [][/\ \A i \in DOMAIN wk :
          (StatusTaken(i) /\ wkErr[i] = "other") =>
             /\ procPc' = "run"
             /\ \A j \in DOMAIN wk : j # i => wk'[j] = wk[j]
             /\ UNCHANGED <<scanPos, dispPc, consPc, mirrorQueue,
                            sessionExists>>
     /\ (procPc = "run" /\ procPc' = "stopped") =>
          \/ wk' = wk
          \/ \E i \in DOMAIN wk : StatusTaken(i) /\ wkErr[i] = "net"
     /\ (procPc' = "done" /\ resumesLeft' = MaxResume)
          => \A i \in DOMAIN wk : wk'[i] = "done"]_vars

\* the first item failed with an error that is not of network class, and the
\* run went on to transfer the second item and ended
C14_Witness ==
  /\ procPc = "done" /\ resumesLeft = MaxResume
  /\ failedItems = {1} /\ wkErr[1] = "other"
  /\ 2 \in sTarget /\ 1 \notin sTarget
  /\ \A i \in DOMAIN wk : wk[i] = "done"

\* ----------------------------------------------------------------------- C15
\* C15: whenever the process has ended on an interrupt or on a failure, during
\* the preparation or during the transfer, the session still exists.
C15_InterruptPersistsSession ==
  procPc \in {"stopped", "aborted"} => sessionExists

C16_StatusFinishedBeforeExit ==
  exited => /\ \A who \in Producers : statusCh[who] = <<>>
            /\ statusPc = "finished"

\* ----------------------------------------------------------------------- C18
\* the bytes of the copy items of a sequence of items
RECURSIVE CopyBytes(_)
CopyBytes(items) ==
  IF items = <<>> THEN 0
  ELSE (IF IsCopy(Head(items)) THEN Head(items).Size ELSE 0)
         + CopyBytes(Tail(items))

\* C18: with fake set no put and no remove reaches the target, from the walk
\* or from the watcher; an only-in-source path still yields its copy item,
\* every executed item results in a status without error, and the progress
\* accounting has advanced by the sizes of the executed copy items.
C18_FakeDoesNoIO ==
  isFake =>
    /\ \A p \in DOMAIN putCalls : putCalls[p] = 0 /\ removeCalls[p] = 0
    /\ \A k \in Classified({"differInFirst"}) :
         /\ Len(emitted[k].out) = 1
         /\ IsCopy(emitted[k].out[1])
         /\ emitted[k].out[1].Size = emitted[k].d.size
    /\ \A who \in Producers : \A m \in StatusMsgs(who) :
         IsResult(m) => m.Error.kind = "none"
    /\ \A who \in Producers :
         Len(ExecLog(who)) + Len(SelectSeq(statusCh[who], IsResult))
           = Len(handed[who])
    /\ statusAdded = CopyBytes(handed["walk"]) + CopyBytes(handed["watch"])

\* a fake run in which the walk has executed a copy item and the watcher a
\* delete item, with the target left as it was
C18_Witness ==
  /\ isFake /\ statusAdded > 0
  /\ \E m \in StatusMsgs("walk") : IsCopy(m) /\ tgt[m.TargetContent].kind = "none"
  /\ \E m \in StatusMsgs("watch") :
       IsDelete(m) /\ m.Error.kind = "none"
         /\ removeCalls[m.TargetContent] = 0

\* ----------------------------------------------------------------------- C19
\* an item of the run has failed: a preparation error was reported, or a
\* status with an error was sent
ItemFailed ==
  \/ prepErrs # <<>>
  \/ \E who \in Producers : \E m \in StatusMsgs(who) : m.Error.kind # "none"

\* C19: the process ends with a status other than zero exactly when an item of
\* the run has failed.
C19_ExitStatusReflectsFailure ==
  exited => ((exitStatus # 0) = ItemFailed)

\* ----------------------------------------------------------------------- C20
\* C20: with remove set and force not set the engine is not started: nothing
\* is listed, copied or deleted.
C20_RemoveWithoutForceIsRejected ==
  (isRemove /\ ~isForce) =>
    /\ emitted = <<>> /\ diffPos = 1 /\ genPc = "loop"
    /\ \A who \in Producers : handed[who] = <<>>
    /\ \A p \in DOMAIN putCalls : putCalls[p] = 0 /\ removeCalls[p] = 0

\* ------------------------------------------------------------------- C21
\* the paths of the union of the two listings up to path n, in lexicographic
\* order
RECURSIVE UnionInOrder(_)
UnionInOrder(n) ==
  IF n = 0 THEN <<>>
  ELSE IF firstClnt[n].kind # "none" \/ secondClnt[n].kind # "none"
    THEN Append(UnionInOrder(n - 1), n)
    ELSE UnionInOrder(n - 1)

\* the listing of the first side was delivered without an error
ListedWithoutError == \A k \in 1..Len(ch) : ch[k].diffType # "err"

\* C21: for two finite sorted listings the differencer visits every path of
\* the union of the two listings exactly once and in lexicographic order, and
\* a path present only in the second listing is reported
C21_VisitsUnionInOrder ==
  (diffPc = "returned" /\ firstClnt # <<>> /\ ListedWithoutError) =>
    /\ visited = UnionInOrder(Cardinality(DOMAIN firstClnt))
    /\ \A p \in DOMAIN secondClnt :
         (firstClnt[p].kind = "none" /\ secondClnt[p].kind # "none") =>
           \E k \in 1..Len(ch) : ch[k].path = p /\ ch[k].diffType = "Only-in"

\* ------------------------------------------------------------------- C22
\* the source holds 1 (10 bytes) and 2 (20 bytes) and nothing else
SourceHoldsTwo ==
  /\ DOMAIN src = Paths
  /\ \A p \in Paths : src[p] = IF p <= 2 THEN SrcFile(p) ELSE NoEntry

\* the target was empty when the run began: what it holds was put by the run
TargetWasEmpty ==
  \A p \in DOMAIN tgt : tgt[p].kind = "none" \/ putCalls[p] > 0

\* the walk has returned after the generator closed its channel, and no
\* listing or client error was met
WalkComplete == walkPc = "returned" /\ prepErrs = <<>> /\ ~isWatch

\* C22: with a source of two objects of 10 and 20 bytes, an empty target and
\* neither force nor remove, the walk hands out exactly two copy items, one
\* for each object in order, no delete item, and the final totals are a count
\* of 2 and 30 bytes
C22_TwoObjectsEmptyTarget ==
  (SourceHoldsTwo /\ TargetWasEmpty /\ ~isForce /\ ~isRemove) =>
    /\ \A p \in DOMAIN removeCalls : removeCalls[p] = 0
    /\ \A k \in 1..Len(handed.walk) : IsCopy(handed.walk[k])
    /\ WalkComplete =>
         /\ Len(handed.walk) = 2
         /\ \A k \in 1..2 : /\ handed.walk[k].SourceContent = k
                            /\ handed.walk[k].TargetContent = k
                            /\ handed.walk[k].Size = 10 * k
         /\ TotalObjects = 2 /\ TotalBytes = 30 /\ statusTotal = 30
         /\ handed.walk[2].TotalCount = 2 /\ handed.walk[2].TotalSize = 30

C22_Witness ==
  /\ SourceHoldsTwo /\ TargetWasEmpty /\ ~isForce /\ ~isRemove
  /\ WalkComplete /\ Len(handed.walk) = 2 /\ TotalBytes = 30

\* ------------------------------------------------------------------- C23
\* the slots of the gate that are held: one for each worker that has not yet
\* finished, and the one the dispatcher has taken for the worker it is about
\* to start
SlotsHeld == Cardinality(InFlight) + (IF dispPc = "go" THEN 1 ELSE 0)

\* C23: every worker releases exactly the one slot it holds, on every exit
\* path: the gate holds exactly one slot for each worker in flight, whatever
\* the outcome of the workers that have finished, and it is empty once all
\* workers have finished
C23_WorkerReleasesItsSlot ==
  /\ mirrorQueue = SlotsHeld
  /\ dispPc = "closed" => mirrorQueue = 0

C23_Witness ==
  /\ dispPc = "closed" /\ mirrorQueue = 0
  /\ \E i \in DOMAIN wk : wk[i] = "done" /\ wkErr[i] = "other"
  /\ \E j \in DOMAIN wk : wk[j] = "done" /\ wkErr[j] = "none"

\* ------------------------------------------------------------------- C24
\* the job's running totals and the total and progress of the display
Totals == <<TotalObjects, TotalBytes, statusTotal, statusAdded>>

\* C24: the totals are written only by the status consumer: a step that
\* changes them is a step in which the consumer handles a message it received
C24_OnlyConsumerWritesTotals ==
  [][Totals' # Totals => statusLog' # statusLog]_vars

\* ------------------------------------------------------------------- C25
\* every worker has returned from the Read it was in and the bar goroutine
\* has received every message
ReadersQuiescent ==
  /\ rdPc # <<>>
  /\ \A w \in DOMAIN rdPc : rdPc[w] = "read"
  /\ opCh = <<>>

\* C25: the workers share no mutable state but the gate, so the progress
\* accounting they feed equals the sum of the byte increments they reported,
\* under every interleaving
C25_ProgressIsSumOfIncrements ==
  ReadersQuiescent => transferred = reported /\ totalBytesRead = reported

\* ------------------------------------------------------------------- C26
\* C26: the totals attached to the items never decrease from one item of a
\* producer to its next, and every queued item, of the walk or of the watcher,
\* carries a count and a byte sum that include the items queued before it by
\* the same producer and the item itself
C26_ItemsCarryRunningTotals ==
  \A who \in Producers : \A k \in 1..Len(handed[who]) :
    LET item == handed[who][k] IN
      /\ item.TotalCount >= k
      /\ item.TotalSize >= item.Size
      /\ k > 1 => /\ item.TotalCount >= handed[who][k - 1].TotalCount
                  /\ item.TotalSize >= handed[who][k - 1].TotalSize

\* ------------------------------------------------------------------- C27
\* the sizes the watcher has added to the displayed total: the size of the
\* source object of each copy it has queued
RECURSIVE WatchAdded(_)
WatchAdded(items) ==
  IF items = <<>> THEN 0
  ELSE (IF IsCopy(Head(items)) THEN SrcFile(Head(items).SourceContent).size
        ELSE 0) + WatchAdded(Tail(items))

\* the walk has drained the generator and the watcher has handled every event
ProducersQuiescent ==
  /\ isWatch
  /\ genPc = "closed" /\ URLsCh = <<>> /\ walkPc = "wait"
  /\ events = <<>> /\ watchPc = "recv"

\* C27: in watch mode no update of the displayed total is lost: once the walk
\* and the watcher are quiescent the total is the byte sum of the copy items of
\* the walk plus the sizes added for the copies of the watcher
C27_NoTotalUpdateLost ==
  ProducersQuiescent =>
    statusTotal = CopyBytes(handed.walk) + WatchAdded(handed.watch)

\* ------------------------------------------------------------------- C28
\* the step saves the session: the preparation ends, a success is recorded, or
\* gracefulSessionSave is called
SessionSaved ==
  \/ procPc = "prep" /\ procPc' = "run"
  \/ recordedNow' # recordedNow
  \/ procPc = "run" /\ procPc' = "stopped"

\* C28: when the status goroutine receives a failure of network class it
\* saves the session, which stays in place for a resume, and the transfer
\* stops; when it receives a failure of another class it does not save the
\* session, the marker of the last copied item keeps its value, and the run
\* goes on
C28_OnlyNetworkFailureSavesSession ==
  [][\A i \in DOMAIN wk :
       /\ (StatusTaken(i) /\ wkErr[i] = "net") =>
            /\ SessionSaved /\ procPc' = "stopped" /\ sessionExists'
            /\ LastCopied' = LastCopied
       /\ (StatusTaken(i) /\ wkErr[i] = "other") =>
            /\ ~SessionSaved /\ procPc' = "run" /\ sessionExists'
            /\ LastCopied' = LastCopied]_vars

\* the failure of network class of a worker has been received: the transfer
\* is stopped with the session in place, and the session can be resumed
C28_Witness ==
  /\ procPc = "stopped" /\ sessionExists /\ resumesLeft > 0
  /\ \E i \in DOMAIN wk : wk[i] = "sent" /\ wkErr[i] = "net"

\* ------------------------------------------------------------------- C29
\* the byte sum of the items written to the session data file
RECURSIVE LoggedBytes(_)
LoggedBytes(names) ==
  IF names = <<>> THEN 0 ELSE ItemSize(Head(names)) + LoggedBytes(Tail(names))

\* a worker has been started, or the dispatcher has taken a slot for one
WorkerStarted ==
  dispPc = "go" \/ mirrorQueue > 0 \/ \E i \in DOMAIN wk : wk[i] # "none"

\* C29: no worker is started before the preparation has drained the item
\* sequence and saved the totals in the session header; the saved totals are
\* the byte sum and the count of the logged items; items that carry an error
\* and empty items are neither logged nor counted
C29_PreparationBeforeWorkers ==
  /\ WorkerStarted =>
       /\ procPc \notin {"prep", "aborted"}
       /\ Len(sessionData) = Cardinality(DOMAIN wk)
  /\ procPc \notin {"prep", "aborted"} =>
       /\ HeaderTotalObjects = Len(sessionData)
       /\ HeaderTotalBytes = LoggedBytes(sessionData)
  /\ prepTotalObjects = Len(sessionData)
  /\ prepTotalBytes = LoggedBytes(sessionData)

C29_Witness ==
  /\ procPc = "run" /\ prepSkipped # <<>>
  /\ \E i \in DOMAIN wk : wk[i] = "started"
  /\ HeaderTotalObjects = Len(sessionData) /\ HeaderTotalBytes > 0

\* ------------------------------------------------------------------- C30
\* the source paths of the copy items of a sequence of items, in order
RECURSIVE CopyPaths(_)
CopyPaths(items) ==
  IF items = <<>> THEN <<>>
  ELSE (IF IsCopy(Head(items)) THEN <<Head(items).SourceContent>> ELSE <<>>)
       \o CopyPaths(Tail(items))

\* the source paths of the copy items the generator made for the first n
\* entries of the differencer, in the order of the entries
RECURSIVE EmittedCopies(_)
EmittedCopies(n) ==
  IF n = 0 THEN <<>>
  ELSE EmittedCopies(n - 1) \o CopyPaths(emitted[n].out)

\* the copies whose status the status goroutine has received
StatusCopies == CopyPaths(statusLog.walk)

\* C30: without watch mode the status records of the copies reach the status
\* goroutine in the order in which the differencer produced their entries,
\* which is the order of the paths: none is received twice or out of order,
\* and when the walk has returned none is missing
C30_WalkKeepsDifferencerOrder ==
  ~isWatch =>
    LET made == EmittedCopies(Len(emitted)) IN
      /\ Len(StatusCopies) <= Len(made)
      /\ \A k \in 1..Len(StatusCopies) : StatusCopies[k] = made[k]
      /\ \A k \in 1..Len(StatusCopies) : \A j \in 1..(k - 1) :
           StatusCopies[j] < StatusCopies[k]
      /\ walkPc = "returned" => StatusCopies = made

C30_Witness ==
  /\ ~isWatch /\ walkPc = "returned"
  /\ Len(StatusCopies) = 2 /\ StatusCopies = EmittedCopies(Len(emitted))
  /\ prepErrs # <<>>

\* ------------------------------------------------------------------- C31
\* the entries of the differencer that carry a listing error
ListErrors == {k \in 1..Len(emitted) : emitted[k].d.err.kind = "listErr"}

\* a client of the generator could not be created
ClientFailed == \E k \in 1..Len(emitted) : emitted[k].d.err.kind = "clientErr"

\* C31: an entry of the differencer that carries an error becomes one item
\* that holds the error only, and the walk goes on: the channel is closed only
\* when every path of the two listings has been classified, and a walk that
\* returned has reported every error item and handed out every copy item,
\* those after the error included
C31_ListingErrorDoesNotEndWalk ==
  /\ \A k \in ListErrors :
       emitted[k].out = <<URLs(0, 0, 0, emitted[k].d.err)>>
  /\ (genPc = "closed" /\ ~ClientFailed) =>
       \A p \in TreePaths :
         InUnion(p) => \E k \in 1..Len(emitted) : emitted[k].d.path = p
  /\ (walkPc = "returned" /\ ~isWatch) =>
       /\ prepErrs = EmittedErrors(emitted)
       /\ CopyPaths(handed.walk) = EmittedCopies(Len(emitted))

\* a listing error was delivered before the entry of a path that was then
\* copied, and the walk has returned
C31_Witness ==
  /\ walkPc = "returned" /\ ~isWatch
  /\ \E k \in ListErrors : \E j \in (k + 1)..Len(emitted) :
       /\ emitted[j].out # <<>> /\ IsCopy(emitted[j].out[1])
       /\ putCalls[emitted[j].d.path] > 0

\* ------------------------------------------------------------------- C32
\* the producers that have executed an item whose status the status goroutine
\* has not yet received
Transferring == {who \in Producers : Len(handed[who]) > Len(ExecLog(who))}

\* the producer is blocked in its send on statusCh
Sending(who) ==
  /\ statusCh[who] # <<>>
  /\ IF who = "walk" THEN walkPc = "send" ELSE watchPc = "send"

\* C32: a producer executes its item inline and hands the status over before
\* it takes its next item: each producer has at most one item in flight, and
\* is then blocked in its send; so at most one transfer is in flight without
\* watch mode and at most two with it
C32_OneTransferPerProducer ==
  /\ \A who \in Producers :
       /\ Len(handed[who]) <= Len(ExecLog(who)) + 1
       /\ who \in Transferring => Sending(who)
       /\ Len(statusCh[who]) <= 1
  /\ Cardinality(Transferring) <= (IF isWatch THEN 2 ELSE 1)
  /\ ~isWatch => handed.watch = <<>>

\* the walk and the watcher each have a transfer in flight
C32_Witness ==
  /\ isWatch /\ Transferring = Producers
  /\ \A who \in Producers : IsCopy(handed[who][Len(handed[who])])

\* ------------------------------------------------------------------- C33
\* the watcher takes the error at the head of the subscription's errors
ErrorTaken == watchErrs # <<>> /\ watchErrs' = Tail(watchErrs)

\* C33: on an operation-not-supported error of the subscription the watcher
\* returns, reports nothing and does not end the process, and the walk is not
\* touched; any other error of the subscription is reported and the watcher
\* stays in its loop
C33_UnsupportedSubscriptionEndsWatcherQuietly ==
  [][/\ (ErrorTaken /\ Head(watchErrs) = "APINotImplemented") =>
          /\ ~watcherRunning' /\ watchPc' = "returned"
          /\ monErrs' = monErrs /\ statusCh' = statusCh /\ ~exited'
          /\ UNCHANGED <<genPc, URLsCh, emitted, walkVars, handed>>
     /\ (ErrorTaken /\ Head(watchErrs) # "APINotImplemented") =>
          /\ monErrs' = Append(monErrs, Head(watchErrs))
          /\ watcherRunning' = watcherRunning /\ watchPc' = "recv"
          /\ ~exited']_vars

\* the watcher has ended on the unsupported subscription without a report,
\* and the walk has gone on to transfer an item
C33_Witness ==
  /\ ~watcherRunning /\ watchPc = "returned" /\ monErrs = <<>>
  /\ statusLog.watch = <<>>
  /\ walkPc = "send" /\ handed.walk # <<>>

\* ------------------------------------------------------------------- C34
\* mirror() is blocked in its receive from trapCh: only an interrupt lets it
\* return
WaitsForInterrupt == walkPc = "wait" /\ ~exited

\* C34: in watch mode, when the watcher has ended because the subscription is
\* not supported, the job returns when the walk has finished and never waits
\* for an interrupt, whether the error came before or after the end of the
\* walk
C34_ReturnsWithoutInterruptWhenWatcherEnded ==
  (isWatch /\ ~watcherRunning) => ~WaitsForInterrupt

\* ------------------------------------------------------------------- C35
\* the run has ended: it returned, or it was stopped by the interrupt taken
\* during the preparation or by a failure of network class
RunEnded == procPc \in {"done", "aborted", "stopped"}

\* the order of the end of a run: statusCh is closed only when no started
\* worker is left, the status goroutine finishes only on the closed channel,
\* and the run returns only after both
OrderlyEnd ==
  /\ dispPc = "closed" =>
       /\ scanPos > Len(sessionData)
       /\ \A i \in DOMAIN wk : wk[i] \in {"none", "done"}
  /\ \A i \in DOMAIN wk : wk[i] = "done" => i \in recordedNow \cup failedItems
  /\ consPc = "finished" => dispPc = "closed"
  /\ procPc = "done" => consPc = "finished" /\ dispPc = "closed"

\* C35: without an interrupt and without a failure of network class a session
\* run terminates: every started worker delivers its status, statusCh is
\* closed once and only after all of them, the status goroutine then
\* finishes, and only then does the run return
C35_SessionRunTerminates ==
  /\ []OrderlyEnd
  /\ [][dispPc = "closed" => dispPc' = "closed"]_vars
  /\ <>RunEnded
  /\ [](procPc = "stopped" =>
         \E i \in DOMAIN wk : wk[i] = "sent" /\ wkErr[i] = "net")

\* the run has returned with both items transferred by workers
C35_Witness ==
  /\ procPc = "done" /\ consPc = "finished" /\ dispPc = "closed"
  /\ recordedNow = DOMAIN wk /\ mirrorQueue = 0

\* ------------------------------------------------------------------- C36
\* the items for which the status goroutine has received a success, in this
\* run or in a run before a resume
Recorded == recordedPrev \cup recordedNow

\* C36: the marker of the last copied item, in the session header and in the
\* closure of a resumed run, is its initial value or an item whose success the
\* status goroutine has received and whose object is on the target; an item
\* that only failed or is still in flight is never the marker, also when the
\* run has been stopped and the session saved
C36_MarkerIsARecordedSuccess ==
  /\ LastCopied = 0 \/ (LastCopied \in Recorded /\ LastCopied \in sTarget)
  /\ lastCopied = 0 \/ lastCopied \in recordedPrev
  /\ \A i \in DOMAIN wk :
       (i \notin Recorded /\ (i \in failedItems \/ i \in InFlight))
         => LastCopied # i

\* the run was stopped by the network failure of one item after the success
\* of the other, which is the marker of the saved session
C36_Witness ==
  /\ procPc = "stopped" /\ sessionExists
  /\ LastCopied # 0 /\ LastCopied \in recordedNow
  /\ \E i \in failedItems : i # LastCopied /\ wkErr[i] = "net"

\* ------------------------------------------------------------------- C37
\* the watcher is in its loop: it waits for an event or hands over the status
\* of the event it has handled, and will then wait for the next one
WatcherInLoop == watchPc \in {"recv", "send"}

\* C37: in watch mode the failure of a client creation or of the source stat
\* for one event concerns that event only: as long as the subscription has
\* not ended the watcher, the watcher stays in its loop and takes the events
\* that follow
C37_EventFailureKeepsWatcher ==
  (isWatch /\ watcherRunning) => WatcherInLoop

\* ------------------------------------------------------------------- C38
\* C38: the emptiness test returns a result for every combination of present
\* or absent source entry, target entry and error; it returns false for a
\* delete-only item and for an item that holds only an error, and true only
\* when there is nothing to do
C38_IsEmptyNeverFaults ==
  emResult # "unset" =>
    /\ emResult \in {"true", "false"}
    /\ IsDelete(emItem) => emResult = "false"
    /\ (emItem.SourceContent = 0 /\ emItem.TargetContent = 0
        /\ emItem.Error.kind # "none") => emResult = "false"
    /\ emResult = "true" =>
         /\ emItem.Error.kind = "none" /\ emItem.TargetContent = 0
         /\ emItem.SourceContent = 0 \/ emItem.Size = 0

\* ------------------------------------------------------------------- C39
\* C39: when a resumed session replays an already-copied item, the sink the
\* replay addresses is the one built for the run, whatever the quiet, json
\* and debug flags: the bar is never addressed when the accounter was built,
\* the replay does not fault, and a replayed item starts no transfer
C39_ReplayUsesConstructedSink ==
  /\ fakeOutcome = "ok"
  /\ fakeAddressed = "barSend" => progressReader = "barSend"
  /\ fakeReplayed \cap fakeStarted = {}

====
